---------------------------- MODULE Spec2Model ----------------------------
(***************************************************************************)
(* Model of the fetch-and-refresh engine of nearby-amenities:              *)
(*   - src/src/utils/overpass.ts        (key, query, fetchOverpass)        *)
(*   - src/src/components/MapRefresher.tsx (the refresh controller)        *)
(* Coordinates are integers in micro-degrees, distances in metres, times   *)
(* in milliseconds.                                                        *)
(***************************************************************************)
EXTENDS Integers, Sequences, FiniteSets, TLC

(***************************************************************************)
(* Bounds of the model.                                                    *)
(***************************************************************************)
MaxCalls == 2
\* fetchOverpass calls started in one behaviour
MaxRequests == 4
\* responses one fetchOverpass call receives before the mirrors go silent
MaxElements == 3
\* elements of a response body whose normalisation is followed
MaxRadius == 1250
\* runs of the fetch effect of NearbyMap.jsx
MaxEffects == 3
\* largest radius handed to roundRadius on its own, m
TimeStep == 100
\* granularity of the clock while a burst of map events is followed, ms
ExtraTime == 400
\* length of the stretches of time that are followed step by step, ms
InitialDist == 1500
\* distance from the centre of the first viewport to its north-east corner, m
ZoomedDist == 900
\* the same distance after a zoom

(***************************************************************************)
(* Program constants.                                                      *)
(***************************************************************************)
CACHE_TTL_MS == 5 * 60 * 1000
maxAttempts == 3
DebounceMs == 300
SwitchPauseMs == 200
BackoffBaseMs == 400
capMs == 15000
NumEndpoints == 2
Radius == 1200
DefaultRadius == 1000

Instances == {1}
Categories == {"toilets", "fountains", "glass"}

Min(a, b) == IF a < b THEN a ELSE b
Max(a, b) == IF a > b THEN a ELSE b

(***************************************************************************)
(* Pure helpers of overpass.ts.                                            *)
(***************************************************************************)
truncCoord(x) == (x \div 100) * 100

\* Math.round(x * 10000) / 10000 on micro-degrees: round half up to 100.
roundCoord(x) == ((x + 50) \div 100) * 100

floorRadius(r) == (r \div 100) * 100

\* Math.round((r || 0) / 100) * 100: round half up to the 100 m bucket.
roundRadius(r) == ((r + 50) \div 100) * 100

\* A filter object is a function from the categories it mentions to BOOLEAN;
\* undefined / null is NoFilters.
NoFilters == [undefined |-> TRUE]

normalizeDefaultTrue(f) ==
    LET o == IF f = NoFilters THEN <<>> ELSE f
    IN  [c \in Categories |-> c \notin DOMAIN o \/ o[c]]

\* !!o.toilets, !!o.fountains, !!o.glass of f || {}
normalizeFilters(f) ==
    LET o == IF f = NoFilters THEN <<>> ELSE f
    IN  [c \in Categories |-> c \in DOMAIN o /\ o[c]]

keyForNoRadius(lat, lon, radius, filters) ==
    LET f == normalizeFilters(filters)
    IN  <<roundCoord(lat), roundCoord(lon), radius,
          f["toilets"], f["fountains"], f["glass"]>>

\* `${roundCoord(lat)},${roundCoord(lon)}|${roundRadius(radius)}|t..f..g..`:
\* the key is the tuple of the six values the template string prints.
keyFor(lat, lon, radius, filters) ==
    LET f == normalizeFilters(filters)
    IN  <<roundCoord(lat), roundCoord(lon), roundRadius(radius),
          f["toilets"], f["fountains"], f["glass"]>>


ClauseNoAround(sel, radiusMeters, lat, lon) == [sel |-> sel, around |-> <<>>]

\* One clause of the Overpass QL union: the tag selector with its around filter.
Clause(sel, radiusMeters, lat, lon) ==
    [sel |-> sel, around |-> <<radiusMeters, lat, lon>>]

buildAllCategories(lat, lon, radiusMeters, opts) ==
    [stmts |-> <<Clause("amenity=toilets", radiusMeters, lat, lon),
                 Clause("amenity=drinking_water", radiusMeters, lat, lon),
                 Clause("amenity=recycling,recycling:glass=yes",
                        radiusMeters, lat, lon),
                 Clause("amenity=recycling,recycling:glass_bottles=yes",
                        radiusMeters, lat, lon)>>,
     out |-> "out center"]

\* opts may lack a category: destructuring defaults a missing one to true.
buildNoSentinel(lat, lon, radiusMeters, opts) ==
    LET all == buildAllCategories(lat, lon, radiusMeters, opts).stmts
        o == IF opts = NoFilters THEN <<>> ELSE opts
        on(c) == IF c \in DOMAIN o THEN o[c] ELSE TRUE
        In(n) == IF n = 1 THEN on("toilets")
                 ELSE IF n = 2 THEN on("fountains") ELSE on("glass")
    IN  [stmts |-> SelectSeq(all, LAMBDA cl :
                       \E n \in 1..Len(all) : all[n] = cl /\ In(n)),
         out |-> "out center"]

buildDefaultOff(lat, lon, radiusMeters, opts) ==
    LET all == buildAllCategories(lat, lon, radiusMeters, opts).stmts
        f == normalizeFilters(opts)
        In(n) == IF n = 1 THEN f["toilets"]
                 ELSE IF n = 2 THEN f["fountains"] ELSE f["glass"]
        parts == SelectSeq(all, LAMBDA cl :
                     \E n \in 1..Len(all) : all[n] = cl /\ In(n))
    IN  IF Len(parts) = 0
        THEN [stmts |-> <<[sel |-> "node(0,0,0,0)", around |-> <<>>]>>,
              out |-> "out"]
        ELSE [stmts |-> parts, out |-> "out center"]

buildOverpassQL(lat, lon, radiusMeters, opts) ==
    LET o == IF opts = NoFilters THEN <<>> ELSE opts
        on(c) == IF c \in DOMAIN o THEN o[c] ELSE TRUE
        parts ==
            (IF on("toilets")
                THEN <<Clause("amenity=toilets", radiusMeters, lat, lon)>>
                ELSE <<>>)
            \o (IF on("fountains")
                THEN <<Clause("amenity=drinking_water", radiusMeters, lat, lon)>>
                ELSE <<>>)
            \o (IF on("glass")
                THEN <<Clause("amenity=recycling,recycling:glass=yes",
                              radiusMeters, lat, lon),
                       Clause("amenity=recycling,recycling:glass_bottles=yes",
                              radiusMeters, lat, lon)>>
                ELSE <<>>)
    IN  IF Len(parts) = 0
        THEN [stmts |-> <<[sel |-> "node(0,0,0,0)", around |-> <<>>]>>,
              out |-> "out"]
        ELSE [stmts |-> parts, out |-> "out center"]

(***************************************************************************)
(* Inputs of the model.                                                    *)
(***************************************************************************)
P1 == <<52520008, 13404954>>
P3 == <<52530000, 13410000>>
Positions == {P1, P3}

\* distances from the viewport centre to its north-east corner
Dists == {InitialDist, ZoomedDist}

AllOn == [toilets |-> TRUE, fountains |-> TRUE, glass |-> TRUE]
NoToilets == [toilets |-> FALSE, fountains |-> TRUE, glass |-> TRUE]
FilterInputs == {AllOn, NoToilets}

\* An element of a response body; a missing field is absent from the record.
ElNode == [type |-> "node", id |-> 1, lat |-> 52520100, lon |-> 13405100]
ElWay == [type |-> "way", id |-> 2, center |-> [lat |-> 52520200, lon |-> 13405200]]
ElRelation ==
    [type |-> "relation", id |-> 3, center |-> [lat |-> 52520300, lon |-> 13405300]]
ElEquator == [type |-> "node", id |-> 4, lat |-> 0, lon |-> 13405100]
ElNoCenter == [type |-> "way", id |-> 5]
ElNoLon == [type |-> "node", id |-> 6, lat |-> 52520600]
Elements == {ElNode, ElWay, ElRelation, ElEquator, ElNoCenter, ElNoLon}
Malformed == <<[type |-> "malformed"]>>
Bodies == {<<>>, <<ElNode>>}

(***************************************************************************)
(* State.                                                                  *)
(***************************************************************************)
VARIABLES
    now,            \* Date.now()
    CACHE,          \* overpass.ts CACHE: key -> [at, data]
    calls,          \* every fetchOverpass call started, in order of start
    mounted,        \* per instance: "no" | "yes" | "gone"
    mapView,        \* the Leaflet map: [center, dist]
    radiusProp,     \* the radius prop
    abortRef,       \* abortRef.current: a call id, 0 for null
    pendingRef,     \* pendingRef.current
    filtersRef,     \* filtersRef.current
    prevFiltersRef, \* prevFiltersRef.current
    timer,          \* deadline of the debounce timeout t, NoTimer when none
    loading,        \* last argument of onLoading: "none" | "on" | "off"
    shown,          \* last argument of onData, and whether a superseded call gave it
    lastEvt,        \* history: the event whose timeout is pending
    last,           \* history: which operation the last step was
    cacheRef,       \* NearbyMap.jsx cacheRef.current: key -> promise or data
    promises,       \* NearbyMap.jsx: every promise p made by fetchWithCache
    effects,        \* NearbyMap.jsx: every run of the fetch effect
    error,          \* NearbyMap.jsx: last argument of setError
    markers         \* NearbyMap.jsx: last argument of onData

ctlVars == <<mounted, mapView, radiusProp, abortRef, pendingRef,
             filtersRef, prevFiltersRef, timer, loading, shown, lastEvt>>
\* the state of the variant NearbyMap.jsx (src/unnamed/part_000)
jsxVars == <<cacheRef, promises, effects, error, markers>>
vars == <<now, CACHE, calls, ctlVars, last, jsxVars>>

\* NearbyMap.jsx is not rendered.
NoJsx ==
    /\ cacheRef = <<>>
    /\ promises = <<>>
    /\ effects = <<>>
    /\ error = "null"
    /\ markers = <<>>

NoTimer == 0 - 1
\* the dist of a map whose bounds or centre cannot be measured
NoGeometry == 0 - 1
NoEvt == [at |-> NoTimer]
Other == [act |-> "init"]

\* The props center and filters are read by the effects when they change, and
\* are inputs of the actions; the first render gives the map the center prop
\* and the refs the normalised filters prop.
Init ==
    /\ NoJsx
    /\ now = 0
    /\ CACHE = <<>>
    /\ calls = <<>>
    /\ mounted = [i \in Instances |-> "no"]
    /\ mapView = [i \in Instances |-> [center |-> P1, dist |-> InitialDist]]
    /\ radiusProp = [i \in Instances |-> Radius]
    /\ abortRef = [i \in Instances |-> 0]
    /\ pendingRef = [i \in Instances |-> 0]
    /\ \E f \in [Instances -> FilterInputs] :
          /\ filtersRef = [i \in Instances |-> normalizeFilters(f[i])]
          /\ prevFiltersRef = [i \in Instances |-> normalizeFilters(f[i])]
    /\ timer = [i \in Instances |-> NoTimer]
    /\ loading = [i \in Instances |-> "none"]
    /\ shown = [i \in Instances |-> [data |-> <<>>, by |-> "none", stale |-> FALSE]]
    /\ lastEvt = [i \in Instances |-> NoEvt]
    /\ last = Other

(***************************************************************************)
(* fetchOverpass (overpass.ts): one call is a record; its pc names the     *)
(* await it is suspended at.                                               *)
(*   "fetch"  awaiting the response of endpoints[endpointIndex]            *)
(*   "sleep"  in sleep(ms); wait says which one                            *)
(*   "text"   awaiting res.text() of an error response; wait says why      *)
(*   "json"   awaiting res.json() of a 2xx response                        *)
(*   "returned" / "failed"  the promise has settled                        *)
(***************************************************************************)
Null == 0 - 1

NoHeader == [kind |-> "none"]
Secs(n) == [kind |-> "secs", v |-> n]
HttpDate(t) == [kind |-> "date", v |-> t]
Junk == [kind |-> "junk"]

parseRetryAfterUncapped(header, dateNow) ==
    IF header.kind = "none" THEN Null
    ELSE IF header.kind = "secs" /\ header.v >= 0
        THEN Max(0, header.v * 1000)
    ELSE IF header.kind = "date"
        THEN Max(0, header.v - dateNow)
    ELSE Null

\* Retry-After in ms, capped; Null when absent or unparsable.
parseRetryAfter(header, dateNow) ==
    IF header.kind = "none" THEN Null
    ELSE IF header.kind = "secs" /\ header.v >= 0
        THEN Min(capMs, Max(0, header.v * 1000))
    ELSE IF header.kind = "date"
        THEN Min(capMs, Max(0, header.v - dateNow))
    ELSE Null

RECURSIVE Pow2(_)
Pow2(n) == IF n <= 0 THEN 1 ELSE 2 * Pow2(n - 1)

BackoffFlat(attempt) == BackoffBaseMs

\* const backoff = 400 * Math.pow(2, attempt - 1)
Backoff(attempt) == BackoffBaseMs * Pow2(attempt - 1)

NotServerError(status) == status < 500

\* res.ok
IsOk(status) == status >= 200 /\ status <= 299

\* The elements of a body, normalised to points; elements whose lat or lon is
\* missing or falsy are filtered out.
Has(el, fld) == fld \in DOMAIN el
LatLng(el) ==
    IF el.type = "node"
    THEN (IF Has(el, "lat") /\ Has(el, "lon")
              THEN [lat |-> el.lat, lon |-> el.lon]
          ELSE IF Has(el, "lat") THEN [lat |-> el.lat]
          ELSE IF Has(el, "lon") THEN [lon |-> el.lon]
          ELSE <<>>)
    ELSE IF Has(el, "center") THEN el.center ELSE <<>>
Truthy(r, fld) == fld \in DOMAIN r /\ r[fld] # 0
ToPoint(el) ==
    [id |-> <<el.type, el.id>>,
     lat |-> LatLng(el).lat,
     lon |-> LatLng(el).lon,
     tags |-> IF Has(el, "tags") THEN el.tags ELSE <<>>,
     type |-> el.type]
RECURSIVE toPoints(_)
toPoints(elements) ==
    IF elements = <<>> THEN <<>>
    ELSE LET el == Head(elements)
             rest == toPoints(Tail(elements))
         IN  IF Truthy(LatLng(el), "lat") /\ Truthy(LatLng(el), "lon")
             THEN <<ToPoint(el)>> \o rest
             ELSE rest

NoSignal(c) == FALSE

\* The signal handed to fetch(): once aborted, the pending request and the
\* reads of the response body reject.
FetchSignal(c) == c.aborted

DeafSleep(c) == FALSE

\* The signal watched by sleep(): once aborted, the pending sleep rejects.
SleepSignal(c) == c.aborted

Fail(c, err) == [c EXCEPT !.pc = "failed", !.error = err]

\* sleep(ms): rejects at once when the signal is already aborted.
sleep(c, ms, why) ==
    IF SleepSignal(c)
    THEN Fail(c, "abort")
    ELSE [c EXCEPT !.pc = "sleep", !.wait = why, !.sleeps = Append(@, ms)]

\* Head of the while loop: the test, attempt++, and the fetch of the current
\* endpoint; a fetch with an aborted signal sends nothing and rejects.
Iterate(c) ==
    IF c.attempt < maxAttempts
    THEN LET c1 == [c EXCEPT !.attempt = @ + 1]
         IN  IF FetchSignal(c1)
             THEN Fail(c1, "abort")
             ELSE [c1 EXCEPT !.pc = "fetch", !.wait = "none",
                             !.requests = Append(@, c1.endpointIndex)]
    ELSE Fail(c, "after retries")

\* The call up to its first await.
\* owner and k belong to the caller: the controller instance that started the
\* call (0: a direct call) and the cache key it computed.  History: requests
\* lists the mirror of every request sent, responses what the call read of
\* every response, sleeps the duration of every sleep started; superseded
\* says that a later doFetch of the owner has run.
fetchOverpass(owner, lat, lon, radius, opts, k) ==
    Iterate([owner |-> owner, k |-> k, superseded |-> FALSE,
             lat |-> lat, lon |-> lon, radius |-> radius, opts |-> opts,
             ql |-> buildOverpassQL(lat, lon, radius, opts),
             aborted |-> FALSE, pc |-> "start", wait |-> "none",
             attempt |-> 0, endpointIndex |-> 0, status |-> 0,
             requests |-> <<>>, responses |-> <<>>, sleeps |-> <<>>,
             error |-> "none", result |-> <<>>, promise |-> "pending"])

\* What is left of a settled call: its locals and its result are gone, its
\* AbortController remains.
Tomb(c) ==
    [c EXCEPT !.k = <<>>, !.superseded = FALSE,
              !.lat = 0, !.lon = 0, !.radius = 0, !.opts = <<>>, !.ql = <<>>,
              !.wait = "none", !.attempt = 0, !.endpointIndex = 0, !.status = 0,
              !.requests = <<>>, !.responses = <<>>, !.sleeps = <<>>,
              !.error = "none", !.result = <<>>]

\* A response with this status and Retry-After header has arrived; the header
\* is read of a 429 or 503 response only.
OnResponse(c, status, header, dateNow) ==
    LET read == IF status = 429 \/ status = 503 THEN header ELSE NoHeader
        c1 == [c EXCEPT !.status = status,
                        !.responses = Append(@, [status |-> status,
                                                 header |-> read])]
        retryAfter == parseRetryAfter(header, dateNow)
    IN  IF (status = 429 \/ status = 503) /\ retryAfter # Null
        THEN sleep(c1, retryAfter, "retryAfter")
        ELSE IF (status = 400 \/ status = 429 \/ (status >= 500 /\ status # 504))
                /\ c1.endpointIndex < NumEndpoints - 1
        THEN [c1 EXCEPT !.pc = "text", !.wait = "switch"]
        ELSE IF ~(status = 504 /\ c1.attempt < maxAttempts)
        THEN (IF ~IsOk(status)
              THEN [c1 EXCEPT !.pc = "text", !.wait = "fail"]
              ELSE [c1 EXCEPT !.pc = "json"])
        ELSE sleep(c1, Backoff(c1.attempt), "backoff")

OnNetworkErrorRetry(c) == Iterate(c)

\* fetch() rejected without a response: lastError = e; break; throw lastError.
OnNetworkError(c) == Fail(c, "network")

AfterSleepCounting(c) == Iterate(c)

AfterSleepUncounted(c) == Iterate([c EXCEPT !.attempt = @ - 1])

AfterSleepNextMirror(c) ==
    IF c.wait = "backoff"
    THEN Iterate([c EXCEPT !.endpointIndex = Min(@ + 1, NumEndpoints - 1)])
    ELSE Iterate([c EXCEPT !.attempt = @ - 1])

\* A sleep has run out.
AfterSleep(c) ==
    IF c.wait = "backoff"
    THEN Iterate(c)
    ELSE Iterate([c EXCEPT !.attempt = @ - 1])

AfterTextSameMirror(c) ==
    IF c.wait = "switch"
    THEN sleep(c, SwitchPauseMs, "switch")
    ELSE Fail(c, "http")

\* res.text().catch(() => '') has settled.
AfterText(c) ==
    IF c.wait = "switch"
    THEN sleep([c EXCEPT !.endpointIndex = @ + 1], SwitchPauseMs, "switch")
    ELSE Fail(c, "http")

\* res.json() has settled with this body.
AfterJson(c, body) ==
    IF body = Malformed
    THEN Fail(c, "malformed")
    ELSE [c EXCEPT !.pc = "returned", !.result = toPoints(body)]

Settled(c) == c.pc \in {"returned", "failed"}

\* An abort rejects the await a call is suspended at in the same task, and the
\* reactions run as microtasks before any other task: while a rejection is
\* due, nothing else runs.
RejectionDue(c) ==
    \/ c.pc \in {"fetch", "json"} /\ FetchSignal(c)
    \/ c.pc = "sleep" /\ SleepSignal(c)
    \/ c.pc = "text" /\ FetchSignal(c)

MicrotasksDue == \E f \in 1..Len(calls) : RejectionDue(calls[f])


(***************************************************************************)
(* MapRefresher.tsx                                                        *)
(***************************************************************************)
Pending(cs) == {f \in 1..Len(cs) : ~Settled(cs[f])}
PendingOf(i) == {f \in Pending(calls) : calls[f].owner = i}

\* Math.ceil(dynamic * 1.1)
CeilBuffered(dynamic) == (dynamic * 11 + 9) \div 10

configuredRadius(i) == radiusProp[i]

\* base || 1000 when the map has no geometry to measure, else
\* Math.max(base, Math.ceil(dynamic * 1.1)).
computeViewportRadius(i) ==
    LET base == radiusProp[i]
    IN  IF mapView[i].dist = NoGeometry
        THEN (IF base = 0 THEN DefaultRadius ELSE base)
        ELSE Max(base, CeilBuffered(mapView[i].dist))

NoAbort(cs, id) == cs

AbortAll(cs, id) ==
    IF id = 0 THEN cs ELSE [f \in 1..Len(cs) |-> [cs[f] EXCEPT !.aborted = TRUE]]

\* controller.abort() on the AbortController of call id (0: none held).
Abort(cs, id) == IF id = 0 THEN cs ELSE [cs EXCEPT ![id].aborted = TRUE]

IsCached(k) == k \in DOMAIN CACHE

IsFreshInclusive(k) == k \in DOMAIN CACHE /\ now - CACHE[k].at <= CACHE_TTL_MS

\* cached && (now - cached.at) < CACHE_TTL_MS
IsFresh(k) == k \in DOMAIN CACHE /\ now - CACHE[k].at < CACHE_TTL_MS

SupersedeAborting(cs, i) ==
    [f \in 1..Len(cs) |->
        IF cs[f].owner = i /\ ~Settled(cs[f])
        THEN [cs[f] EXCEPT !.superseded = TRUE, !.aborted = TRUE] ELSE cs[f]]

\* History: the calls of instance i still in flight have been overtaken by a
\* new doFetch.
Supersede(cs, i) ==
    [f \in 1..Len(cs) |->
        IF cs[f].owner = i /\ ~Settled(cs[f])
        THEN [cs[f] EXCEPT !.superseded = TRUE] ELSE cs[f]]

NonAborted(cs) == {f \in 1..Len(cs) : ~cs[f].aborted}

\* doFetch(lat, lng, r, filtersOpt), run by instance i from the effect src;
\* cs is the list of calls as the effect leaves it before the call.
doFetch(i, cs, lat, lng, r, filtersOpt, src) ==
    LET normalized == normalizeFilters(filtersOpt)
        k == keyFor(lat, lng, r, normalized)
        id == Len(cs) + 1
    IN  /\ IF IsFresh(k)
           THEN /\ shown' = [shown EXCEPT ![i] =
                               [data |-> CACHE[k].data, by |-> "cache",
                                stale |-> FALSE]]
                /\ loading' = IF pendingRef[i] = 0
                              THEN [loading EXCEPT ![i] = "off"]
                              ELSE loading
                /\ calls' = Supersede(cs, i)
                /\ UNCHANGED <<abortRef, pendingRef>>
           ELSE /\ Len(cs) < MaxCalls
                /\ calls' = Append(Supersede(Abort(cs, abortRef[i]), i),
                                   fetchOverpass(i, lat, lng, r, normalized, k))
                /\ abortRef' = [abortRef EXCEPT ![i] = id]
                /\ pendingRef' = [pendingRef EXCEPT ![i] = @ + 1]
                /\ loading' = [loading EXCEPT ![i] = "on"]
                /\ UNCHANGED shown
        /\ last' = [act |-> src, i |-> i, hit |-> IsFresh(k), k |-> k,
                    evt |-> lastEvt[i]]
        /\ UNCHANGED CACHE

\* First render: the three effects run in order.  The filters effect finds
\* prevFiltersRef equal to the normalised prop, so nothing is turned on; the
\* center effect recentres and fetches; the last effect registers trigger.
Mount(i) ==
    /\ ~MicrotasksDue
    /\ mounted[i] = "no"
    /\ mounted' = [mounted EXCEPT ![i] = "yes"]
    /\ doFetch(i, calls, mapView[i].center[1], mapView[i].center[2],
               computeViewportRadius(i), filtersRef[i], "mount")
    /\ UNCHANGED <<now, mapView, radiusProp, jsxVars, filtersRef, prevFiltersRef, timer, lastEvt>>

CenterChangeNoCleanup(i, c) ==
    /\ ~MicrotasksDue
    /\ mounted[i] = "yes"
    /\ mapView' = [mapView EXCEPT ![i].center = c]
    /\ doFetch(i, calls, c[1], c[2],
               computeViewportRadius(i), filtersRef[i], "center")
    /\ UNCHANGED <<now, mounted, radiusProp, jsxVars, filtersRef, prevFiltersRef, timer, lastEvt>>

\* The center prop changes: cleanup of the previous center effect (abort),
\* then the effect: setView and doFetch for the new center.
CenterChange(i, c) ==
    /\ ~MicrotasksDue
    /\ mounted[i] = "yes"
    /\ mapView' = [mapView EXCEPT ![i].center = c]
    /\ doFetch(i, Abort(calls, abortRef[i]), c[1], c[2],
               computeViewportRadius(i), filtersRef[i], "center")
    /\ UNCHANGED <<now, mounted, radiusProp, jsxVars, filtersRef, prevFiltersRef, timer, lastEvt>>

Differs(prev, curr) == prev # curr

turnedOn(prev, curr) ==
    \/ (~prev["toilets"] /\ curr["toilets"])
    \/ (~prev["fountains"] /\ curr["fountains"])
    \/ (~prev["glass"] /\ curr["glass"])

\* The filters prop changes: the filters effect.
FiltersChange(i, f) ==
    LET curr == normalizeFilters(f)
        prev == prevFiltersRef[i]
    IN  /\ ~MicrotasksDue
        /\ mounted[i] = "yes"
        /\ filtersRef' = [filtersRef EXCEPT ![i] = curr]
        /\ prevFiltersRef' = [prevFiltersRef EXCEPT ![i] = curr]
        /\ IF turnedOn(prev, curr)
           THEN doFetch(i, calls, mapView[i].center[1], mapView[i].center[2],
                        computeViewportRadius(i), curr, "filters")
           ELSE /\ last' = [act |-> "filtersOff", i |-> i]
                /\ UNCHANGED <<CACHE, calls, abortRef, pendingRef, loading, shown>>
        /\ UNCHANGED <<now, mounted, mapView, radiusProp, jsxVars, timer, lastEvt>>

KeepPending(pending) == IF pending = NoTimer THEN now + DebounceMs ELSE pending

\* setTimeout(..., 300) after clearTimeout(t): the deadline of the timeout
\* that replaces the pending one.
Rearm(pending) == now + DebounceMs

\* A moveend or zoomend event: the map shows centre c with corner distance d,
\* and trigger() restarts the timeout.  History: lastEvt keeps the event and
\* the time of the first event since the timeout was last idle.
trigger(i, c, d) ==
    /\ ~MicrotasksDue
    /\ mounted[i] = "yes"
    /\ mapView' = [mapView EXCEPT ![i] = [center |-> c, dist |-> d]]
    /\ timer' = [timer EXCEPT ![i] = Rearm(timer[i])]
    /\ lastEvt' = [lastEvt EXCEPT ![i] =
                     [at |-> now,
                      first |-> IF timer[i] = NoTimer THEN now ELSE lastEvt[i].first,
                      center |-> c, dist |-> d]]
    /\ last' = [act |-> "trigger", i |-> i]
    /\ UNCHANGED <<now, CACHE, calls, mounted, radiusProp, jsxVars, abortRef,
                   pendingRef, filtersRef, prevFiltersRef, loading, shown>>

\* The timeout set by trigger() runs; only clearTimeout keeps it from running.
DebounceFire(i) ==
    /\ ~MicrotasksDue
    /\ timer[i] # NoTimer
    /\ now >= timer[i]
    /\ timer' = [timer EXCEPT ![i] = NoTimer]
    /\ lastEvt' = [lastEvt EXCEPT ![i] = NoEvt]
    /\ doFetch(i, calls, mapView[i].center[1], mapView[i].center[2],
               computeViewportRadius(i), filtersRef[i], "debounce")
    /\ UNCHANGED <<now, mounted, mapView, radiusProp, jsxVars, filtersRef, prevFiltersRef>>

UnmountKeepTimer(i) ==
    /\ ~MicrotasksDue
    /\ mounted[i] = "yes"
    /\ mounted' = [mounted EXCEPT ![i] = "gone"]
    /\ calls' = Abort(calls, abortRef[i])
    /\ last' = [act |-> "unmount", i |-> i, timer |-> timer[i]]
    /\ UNCHANGED <<now, CACHE, mapView, radiusProp, jsxVars, abortRef, pendingRef,
                   filtersRef, prevFiltersRef, loading, shown, timer, lastEvt>>

\* Teardown: the cleanups of the center effect and of the debounce effect.
\* History: last keeps the deadline of the timeout the teardown cleared.
Unmount(i) ==
    /\ ~MicrotasksDue
    /\ mounted[i] = "yes"
    /\ mounted' = [mounted EXCEPT ![i] = "gone"]
    /\ calls' = Abort(calls, abortRef[i])
    /\ timer' = [timer EXCEPT ![i] = NoTimer]
    /\ lastEvt' = [lastEvt EXCEPT ![i] = NoEvt]
    /\ last' = [act |-> "unmount", i |-> i, timer |-> timer[i]]
    /\ UNCHANGED <<now, CACHE, mapView, radiusProp, jsxVars, abortRef, pendingRef,
                   filtersRef, prevFiltersRef, loading, shown>>

ResetCount(n) == 0

DecrementTwice(n) == Max(0, n - 2)

NoDecrement(n) == n

\* pendingRef.current = Math.max(0, pendingRef.current - 1)
Decrement(n) == Max(0, n - 1)

Uncaught(c) == IF c.pc = "failed" THEN "rejected" ELSE "resolved"

\* .then(...).catch(() => {}): the promise returned by doFetch once the call
\* has settled as c.
Caught(c) == "resolved"

\* The promise of a direct call once it has settled as c.
Outcome(c) == IF c.pc = "returned" THEN "fulfilled" ELSE "rejected"

SettleCachingFailures(f, c) ==
    LET i == c.owner
    IN  IF i = 0
        THEN /\ calls' = [calls EXCEPT ![f] = [c EXCEPT !.promise = Outcome(c)]]
             /\ UNCHANGED <<CACHE, shown, pendingRef, loading>>
        ELSE /\ calls' = [calls EXCEPT ![f] = Tomb([c EXCEPT !.promise = Caught(c)])]
             /\ CACHE' = [k \in DOMAIN CACHE \cup {c.k} |->
                            IF k = c.k
                            THEN [at |-> now, data |-> c.result]
                            ELSE CACHE[k]]
             /\ IF c.pc = "returned"
                THEN shown' = [shown EXCEPT ![i] =
                                  [data |-> c.result, by |-> "network",
                                   stale |-> c.superseded]]
                ELSE UNCHANGED shown
             /\ pendingRef' = [pendingRef EXCEPT ![i] = Decrement(@)]
             /\ loading' = [loading EXCEPT ![i] =
                              IF Decrement(pendingRef[i]) > 0
                              THEN "on" ELSE "off"]

\* The call f settles as c.  A call started by doFetch runs the then / catch /
\* finally chained on it, and nothing of it is kept but its AbortController;
\* a direct call (owner 0) hands its outcome to its caller.
Settle(f, c) ==
    LET i == c.owner
        ok == c.pc = "returned"
    IN  IF i = 0
        THEN /\ calls' = [calls EXCEPT ![f] = [c EXCEPT !.promise = Outcome(c)]]
             /\ UNCHANGED <<CACHE, shown, pendingRef, loading>>
        ELSE /\ calls' = [calls EXCEPT ![f] = Tomb([c EXCEPT !.promise = Caught(c)])]
             /\ IF ok
                THEN /\ CACHE' = [k \in DOMAIN CACHE \cup {c.k} |->
                                    IF k = c.k
                                    THEN [at |-> now, data |-> c.result]
                                    ELSE CACHE[k]]
                     /\ shown' = [shown EXCEPT ![i] =
                                    [data |-> c.result, by |-> "network",
                                     stale |-> c.superseded]]
                ELSE UNCHANGED <<CACHE, shown>>
             /\ pendingRef' = [pendingRef EXCEPT ![i] = Decrement(@)]
             /\ loading' = [loading EXCEPT ![i] =
                              IF Decrement(pendingRef[i]) > 0
                              THEN "on" ELSE "off"]

\* A step of call f, taken on this input, that leaves it as c.  History:
\* last keeps the input and the call as the step leaves it.
Commit(f, c, input) ==
    /\ IF Settled(c)
       THEN /\ Settle(f, c)
            /\ last' = [act |-> "settle", f |-> f, c |-> c, input |-> input]
       ELSE /\ calls' = [calls EXCEPT ![f] = c]
            /\ last' = [act |-> "step", f |-> f, c |-> c, input |-> input]
            /\ UNCHANGED <<CACHE, pendingRef, loading, shown>>
    /\ UNCHANGED <<now, mounted, mapView, radiusProp, jsxVars, abortRef,
                   filtersRef, prevFiltersRef, timer, lastEvt>>

(***************************************************************************)
(* Steps of the calls in flight.                                           *)
(***************************************************************************)
\* A mirror answers the request of call f.
Respond(f, status, header) ==
    /\ f \in 1..Len(calls)
    /\ ~MicrotasksDue
    /\ calls[f].pc = "fetch"
    /\ Len(calls[f].responses) < MaxRequests
    /\ Commit(f, OnResponse(calls[f], status, header, now),
              [status |-> status, header |-> header])

\* The request of call f fails without a response.
NetworkError(f) ==
    /\ f \in 1..Len(calls)
    /\ ~MicrotasksDue
    /\ calls[f].pc = "fetch"
    /\ Commit(f, OnNetworkError(calls[f]), [error |-> "network"])

\* The sleep of call f runs out.
SleepDone(f) ==
    /\ f \in 1..Len(calls)
    /\ ~MicrotasksDue
    /\ calls[f].pc = "sleep"
    /\ Commit(f, AfterSleep(calls[f]), [timeout |-> "sleep"])

\* The body of an error response of call f has been read, or its read has
\* been rejected by the abort and the rejection swallowed.
TextDone(f) ==
    /\ f \in 1..Len(calls)
    /\ calls[f].pc = "text"
    /\ MicrotasksDue => RejectionDue(calls[f])
    /\ Commit(f, AfterText(calls[f]), [text |-> "read"])

\* The body of a 2xx response of call f has been read.
JsonDone(f, body) ==
    /\ f \in 1..Len(calls)
    /\ ~MicrotasksDue
    /\ calls[f].pc = "json"
    /\ Commit(f, AfterJson(calls[f], body), [body |-> body])

\* The await of call f rejects because its signal is aborted.
Rejected(f) ==
    /\ f \in 1..Len(calls)
    /\ calls[f].pc \in {"fetch", "json", "sleep"}
    /\ RejectionDue(calls[f])
    /\ Commit(f, Fail(calls[f], "abort"), [error |-> "abort"])

\* The caller of a direct call aborts the signal it passed.
AbortCall(f) ==
    /\ f \in 1..Len(calls)
    /\ ~MicrotasksDue
    /\ calls[f].owner = 0
    /\ ~Settled(calls[f])
    /\ ~calls[f].aborted
    /\ calls' = Abort(calls, f)
    /\ last' = [act |-> "abort", f |-> f]
    /\ UNCHANGED <<now, CACHE, ctlVars, jsxVars>>

(***************************************************************************)
(* The clock.  A due timeout runs before time moves on, and time stops at  *)
(* the deadline of a pending timeout.  Time is followed during the first   *)
(* ExtraTime ms and again around the age at which the cache entries of     *)
(* that stretch expire.                                                    *)
(***************************************************************************)
MaxTime == CACHE_TTL_MS + ExtraTime

Deadlines == {timer[i] : i \in {j \in DOMAIN timer : timer[j] # NoTimer}}

Arrival(d) ==
    IF \E t \in Deadlines : t < now + d
    THEN CHOOSE t \in Deadlines : \A u \in Deadlines : t <= u
    ELSE now + d

Early(d) == Arrival(d) <= ExtraTime
Late(d) == Arrival(d) >= CACHE_TTL_MS - DebounceMs /\ Arrival(d) <= MaxTime

Tick(d) ==
    /\ ~MicrotasksDue
    /\ \A t \in Deadlines : now < t
    /\ now' = Arrival(d)
    /\ last' = [act |-> "tick"]
    /\ UNCHANGED <<CACHE, calls, ctlVars, jsxVars>>

(***************************************************************************)
(* The controller, its mirrors answering 200 or 404, over the life of a    *)
(* cache entry.                                                            *)
(***************************************************************************)
Answer(f, statuses, headers, bodies) ==
    \/ \E status \in statuses, header \in headers : Respond(f, status, header)
    \/ NetworkError(f)
    \/ TextDone(f)
    \/ \E body \in bodies : JsonDone(f, body)
    \/ Rejected(f)

CtlStatuses == {200, 404}
CtlHeaders == {NoHeader}
LongSteps == {DebounceMs, CACHE_TTL_MS - DebounceMs}

Pass(d) == (Early(d) \/ Late(d)) /\ Tick(d)

Next ==
    \/ \E i \in Instances : Mount(i)
    \/ \E i \in Instances, c \in Positions : CenterChange(i, c)
    \/ \E i \in Instances, f \in FilterInputs : FiltersChange(i, f)
    \/ \E i \in Instances, c \in Positions : trigger(i, c, InitialDist)
    \/ \E i \in Instances : DebounceFire(i)
    \/ \E i \in Instances : Unmount(i)
    \/ \E f \in 1..MaxCalls : Answer(f, CtlStatuses, CtlHeaders, Bodies \cup {Malformed})
    \/ \E d \in LongSteps : Pass(d)

Spec == Init /\ [][Next]_vars

\* Every request is answered or fails, every body is read and every rejection
\* is delivered: a call in flight takes its next step.
CallsProgress ==
    \A f \in 1..MaxCalls :
        WF_vars(Answer(f, CtlStatuses, CtlHeaders, Bodies \cup {Malformed}))

SpecLive == Init /\ [][Next]_vars /\ CallsProgress

(***************************************************************************)
(* The controller during bursts of map events: the first ExtraTime ms      *)
(* after a start with a warm cache, the clock in steps of TimeStep.  No    *)
(* mirror answers within that time; a request may fail.                    *)
(***************************************************************************)
WarmKeys ==
    {keyFor(P1[1], P1[2], Max(Radius, CeilBuffered(d)), f) :
        d \in Dists, f \in FilterInputs}

WarmCache == [k \in WarmKeys |-> [at |-> 0, data |-> toPoints(<<ElNode>>)]]

InitBurst ==
    /\ NoJsx
    /\ now = 0
    /\ CACHE = WarmCache
    /\ calls = <<>>
    /\ mounted = [i \in Instances |-> "no"]
    /\ mapView = [i \in Instances |-> [center |-> P1, dist |-> InitialDist]]
    /\ radiusProp = [i \in Instances |-> Radius]
    /\ abortRef = [i \in Instances |-> 0]
    /\ pendingRef = [i \in Instances |-> 0]
    /\ \E f \in [Instances -> FilterInputs] :
          /\ filtersRef = [i \in Instances |-> normalizeFilters(f[i])]
          /\ prevFiltersRef = [i \in Instances |-> normalizeFilters(f[i])]
    /\ timer = [i \in Instances |-> NoTimer]
    /\ loading = [i \in Instances |-> "none"]
    /\ shown = [i \in Instances |-> [data |-> <<>>, by |-> "none", stale |-> FALSE]]
    /\ lastEvt = [i \in Instances |-> NoEvt]
    /\ last = Other

PassBurst == Early(TimeStep) /\ Tick(TimeStep)

NextBurst ==
    \/ \E i \in Instances : Mount(i)
    \/ \E i \in Instances, c \in Positions : CenterChange(i, c)
    \/ \E i \in Instances, f \in FilterInputs : FiltersChange(i, f)
    \/ \E i \in Instances, c \in Positions, d \in Dists : trigger(i, c, d)
    \/ \E i \in Instances : DebounceFire(i)
    \/ \E i \in Instances : Unmount(i)
    \/ \E f \in 1..MaxCalls : NetworkError(f)
    \/ \E f \in 1..MaxCalls : Rejected(f)
    \/ PassBurst

SpecBurst == InitBurst /\ [][NextBurst]_vars

(***************************************************************************)
(* The controller with mirrors that make fetchOverpass sleep, retry and    *)
(* switch; no time passes.                                                 *)
(***************************************************************************)
RetryStatuses == {200, 400, 503, 504}
RetryHeaders == {NoHeader, Secs(1)}

NextAbort ==
    \/ \E i \in Instances : Mount(i)
    \/ \E i \in Instances, c \in Positions : CenterChange(i, c)
    \/ \E i \in Instances, f \in FilterInputs : FiltersChange(i, f)
    \/ \E i \in Instances : Unmount(i)
    \/ \E f \in 1..MaxCalls : Answer(f, RetryStatuses, RetryHeaders, Bodies \cup {Malformed})
    \/ \E f \in 1..MaxCalls : SleepDone(f)

SpecAbort == Init /\ [][NextAbort]_vars

(***************************************************************************)
(* One direct call of fetchOverpass, whose caller may abort it.            *)
(***************************************************************************)
Statuses == {200, 400, 404, 429, 500, 503, 504}
Headers == {NoHeader, Secs(1), HttpDate(20000)}
FetchOpts == {NoFilters, NoToilets}

InitFetch ==
    /\ NoJsx
    /\ now = 0
    /\ CACHE = <<>>
    /\ \E opts \in FetchOpts :
          calls = <<fetchOverpass(0, P1[1], P1[2], Radius, opts, <<>>)>>
    /\ mounted = [i \in Instances |-> "gone"]
    /\ mapView = [i \in Instances |-> [center |-> P1, dist |-> InitialDist]]
    /\ radiusProp = [i \in Instances |-> Radius]
    /\ abortRef = [i \in Instances |-> 0]
    /\ pendingRef = [i \in Instances |-> 0]
    /\ filtersRef = [i \in Instances |-> normalizeFilters(AllOn)]
    /\ prevFiltersRef = [i \in Instances |-> normalizeFilters(AllOn)]
    /\ timer = [i \in Instances |-> NoTimer]
    /\ loading = [i \in Instances |-> "none"]
    /\ shown = [i \in Instances |-> [data |-> <<>>, by |-> "none", stale |-> FALSE]]
    /\ lastEvt = [i \in Instances |-> NoEvt]
    /\ last = Other

NextFetch ==
    \/ \E f \in 1..MaxCalls : Answer(f, Statuses, Headers, Bodies \cup {Malformed})
    \/ \E f \in 1..MaxCalls : SleepDone(f)
    \/ \E f \in 1..MaxCalls : AbortCall(f)

SpecFetch == InitFetch /\ [][NextFetch]_vars

(***************************************************************************)
(* One direct call whose mirrors answer 200, 429 or 503 with Retry-After   *)
(* headers on both sides of the cap, as seconds and as dates before and    *)
(* after the time of the call.                                             *)
(***************************************************************************)
WaitStatuses == {200, 429, 503}
WaitHeaders ==
    {NoHeader, Junk, Secs(0), Secs(15), Secs(16), HttpDate(1000), HttpDate(20000)}
StartTimes == {500, 3000}

InitRetry ==
    /\ NoJsx
    /\ now \in StartTimes
    /\ CACHE = <<>>
    /\ calls = <<fetchOverpass(0, P1[1], P1[2], Radius, NoFilters, <<>>)>>
    /\ mounted = [i \in Instances |-> "gone"]
    /\ mapView = [i \in Instances |-> [center |-> P1, dist |-> InitialDist]]
    /\ radiusProp = [i \in Instances |-> Radius]
    /\ abortRef = [i \in Instances |-> 0]
    /\ pendingRef = [i \in Instances |-> 0]
    /\ filtersRef = [i \in Instances |-> normalizeFilters(AllOn)]
    /\ prevFiltersRef = [i \in Instances |-> normalizeFilters(AllOn)]
    /\ timer = [i \in Instances |-> NoTimer]
    /\ loading = [i \in Instances |-> "none"]
    /\ shown = [i \in Instances |-> [data |-> <<>>, by |-> "none", stale |-> FALSE]]
    /\ lastEvt = [i \in Instances |-> NoEvt]
    /\ last = Other

NextRetry ==
    \/ \E f \in 1..MaxCalls : Answer(f, WaitStatuses, WaitHeaders, Bodies)
    \/ \E f \in 1..MaxCalls : SleepDone(f)
    \/ \E f \in 1..MaxCalls : AbortCall(f)

SpecRetry == InitRetry /\ [][NextRetry]_vars

(***************************************************************************)
(* One direct call of fetchOverpass that is answered 200: the              *)
(* normalisation of the elements of the body.                              *)
(***************************************************************************)
ParseBodies == UNION {[1..n -> Elements] : n \in 0..MaxElements}

NextParse ==
    \/ \E f \in 1..MaxCalls : Respond(f, 200, NoHeader)
    \/ \E f \in 1..MaxCalls, body \in ParseBodies : JsonDone(f, body)

SpecParse == InitFetch /\ [][NextParse]_vars

(***************************************************************************)
(* The helpers of overpass.ts called on their own, as the unit tests call  *)
(* them: last holds the arguments of the call to make and, after it, the   *)
(* arguments with the value returned.                                      *)
(***************************************************************************)
\* latitudes on both sides of the rounding boundaries, in both hemispheres
LatSamples ==
    {base + d : base \in {0, 52520000}, d \in {0 - 50, 0 - 49, 0 - 51, 0, 49, 50}}
LonSamples == {13404949, 13404950}
RadiusSamples == {1149, 1150, 1249}
FilterSamples ==
    {NoFilters, [toilets |-> FALSE], [toilets |-> TRUE, glass |-> TRUE], AllOn}
\* keyFor(52.520008, 13.404954, 1234, {toilets: true, fountains: false,
\* glass: true}) of the unit test
TestKeyArgs ==
    <<52520008, 13404954, 1234,
      [toilets |-> TRUE, fountains |-> FALSE, glass |-> TRUE]>>
KeyArgs ==
    (LatSamples \X LonSamples \X RadiusSamples \X FilterSamples)
    \cup {TestKeyArgs}

\* The four parts keyFor prints of the request a.
Rounded(a) ==
    <<roundCoord(a[1]), roundCoord(a[2]), roundRadius(a[3]),
      normalizeFilters(a[4])>>

\* a filter object with any of its fields missing
PartialFilters == UNION {[S -> BOOLEAN] : S \in SUBSET Categories}

UtilInputs ==
    {[act |-> "input", fn |-> "keyFor", a |-> a, b |-> b] : a, b \in KeyArgs}
    \cup {[act |-> "input", fn |-> "roundRadius", r |-> r] : r \in 0..MaxRadius}
    \cup {[act |-> "input", fn |-> "normalizeFilters", f |-> f] :
               f \in PartialFilters \cup {NoFilters}}
    \cup {[act |-> "input", fn |-> "defaults", opts |-> o] :
               o \in PartialFilters \cup {NoFilters}}
    \cup {[act |-> "input", fn |-> "buildOverpassQL",
            lat |-> c[1], lon |-> c[2], radius |-> r, opts |-> o] :
               c \in Positions, r \in RadiusSamples, o \in [Categories -> BOOLEAN]}

InitUtil ==
    /\ NoJsx
    /\ now = 0
    /\ CACHE = <<>>
    /\ calls = <<>>
    /\ mounted = [i \in Instances |-> "no"]
    /\ mapView = [i \in Instances |-> [center |-> P1, dist |-> InitialDist]]
    /\ radiusProp = [i \in Instances |-> Radius]
    /\ abortRef = [i \in Instances |-> 0]
    /\ pendingRef = [i \in Instances |-> 0]
    /\ filtersRef = [i \in Instances |-> normalizeFilters(AllOn)]
    /\ prevFiltersRef = [i \in Instances |-> normalizeFilters(AllOn)]
    /\ timer = [i \in Instances |-> NoTimer]
    /\ loading = [i \in Instances |-> "none"]
    /\ shown = [i \in Instances |-> [data |-> <<>>, by |-> "none", stale |-> FALSE]]
    /\ lastEvt = [i \in Instances |-> NoEvt]
    /\ last \in UtilInputs

\* keyFor(...) of two requests, and of the rounded inputs of the first
CallKeyFor ==
    /\ last.act = "input"
    /\ last.fn = "keyFor"
    /\ last' = [act |-> "keyFor", a |-> last.a, b |-> last.b,
                ka |-> keyFor(last.a[1], last.a[2], last.a[3], last.a[4]),
                kb |-> keyFor(last.b[1], last.b[2], last.b[3], last.b[4]),
                kr |-> LET ra == Rounded(last.a)
                       IN  keyFor(ra[1], ra[2], ra[3], ra[4])]
    /\ UNCHANGED <<now, CACHE, calls, ctlVars, jsxVars>>

\* roundRadius(r), and roundRadius of its result
CallRoundRadius ==
    /\ last.act = "input"
    /\ last.fn = "roundRadius"
    /\ last' = [act |-> "roundRadius", r |-> last.r,
                ret |-> roundRadius(last.r),
                again |-> roundRadius(roundRadius(last.r))]
    /\ UNCHANGED <<now, CACHE, calls, ctlVars, jsxVars>>

\* normalizeFilters(f), and normalizeFilters of its result
CallNormalizeFilters ==
    /\ last.act = "input"
    /\ last.fn = "normalizeFilters"
    /\ last' = [act |-> "normalizeFilters", f |-> last.f,
                ret |-> normalizeFilters(last.f),
                again |-> normalizeFilters(normalizeFilters(last.f))]
    /\ UNCHANGED <<now, CACHE, calls, ctlVars, jsxVars>>

\* buildOverpassQL(lat, lon, radius, opts)
CallBuildOverpassQL ==
    /\ last.act = "input"
    /\ last.fn = "buildOverpassQL"
    /\ last' = [act |-> "buildOverpassQL", lat |-> last.lat, lon |-> last.lon,
                radius |-> last.radius, opts |-> last.opts,
                ret |-> buildOverpassQL(last.lat, last.lon, last.radius, last.opts)]
    /\ UNCHANGED <<now, CACHE, calls, ctlVars, jsxVars>>

\* The same filter object, which may lack fields or be omitted, handed to
\* buildOverpassQL, to fetchOverpass, to normalizeFilters and to keyFor.
CallWithDefaults ==
    /\ last.act = "input"
    /\ last.fn = "defaults"
    /\ last' = [act |-> "defaults", opts |-> last.opts,
                built |-> buildOverpassQL(P1[1], P1[2], Radius, last.opts),
                sent |-> fetchOverpass(0, P1[1], P1[2], Radius, last.opts, <<>>).ql,
                norm |-> normalizeFilters(last.opts),
                key |-> keyFor(P1[1], P1[2], Radius, last.opts)]
    /\ UNCHANGED <<now, CACHE, calls, ctlVars, jsxVars>>

NextUtil ==
    \/ CallWithDefaults
    \/ CallKeyFor
    \/ CallRoundRadius
    \/ CallNormalizeFilters
    \/ CallBuildOverpassQL

SpecUtil == InitUtil /\ [][NextUtil]_vars

(***************************************************************************)
(* The controller under each configuration of its props and its map: the   *)
(* radius prop 0 or the configured one, a map with or without geometry to  *)
(* measure, a filters prop that may lack fields; the first ExtraTime ms.   *)
(***************************************************************************)
ViewFilters == {AllOn, [glass |-> TRUE]}

InitView ==
    /\ NoJsx
    /\ now = 0
    /\ CACHE = <<>>
    /\ calls = <<>>
    /\ mounted = [i \in Instances |-> "no"]
    /\ \E d \in [Instances -> {InitialDist, NoGeometry}] :
          mapView = [i \in Instances |-> [center |-> P1, dist |-> d[i]]]
    /\ radiusProp \in [Instances -> {0, Radius}]
    /\ abortRef = [i \in Instances |-> 0]
    /\ pendingRef = [i \in Instances |-> 0]
    /\ \E f \in [Instances -> ViewFilters] :
          /\ filtersRef = [i \in Instances |-> normalizeFilters(f[i])]
          /\ prevFiltersRef = [i \in Instances |-> normalizeFilters(f[i])]
    /\ timer = [i \in Instances |-> NoTimer]
    /\ loading = [i \in Instances |-> "none"]
    /\ shown = [i \in Instances |-> [data |-> <<>>, by |-> "none", stale |-> FALSE]]
    /\ lastEvt = [i \in Instances |-> NoEvt]
    /\ last = Other

\* A moveend or zoomend event of a map that has geometry.
moveend(i, c, d) == mapView[i].dist # NoGeometry /\ trigger(i, c, d)

PassView == Early(DebounceMs) /\ Tick(DebounceMs)

NextView ==
    \/ \E i \in Instances : Mount(i)
    \/ \E i \in Instances, c \in Positions : CenterChange(i, c)
    \/ \E i \in Instances, f \in ViewFilters : FiltersChange(i, f)
    \/ \E i \in Instances, c \in Positions, d \in Dists : moveend(i, c, d)
    \/ \E i \in Instances : DebounceFire(i)
    \/ \E i \in Instances : Unmount(i)
    \/ \E f \in 1..MaxCalls : Answer(f, CtlStatuses, CtlHeaders, Bodies)
    \/ PassView

SpecView == InitView /\ [][NextView]_vars

(***************************************************************************)
(* The controller of a user who may switch every category off; the first   *)
(* ExtraTime ms.                                                           *)
(***************************************************************************)
AllOff == [toilets |-> FALSE, fountains |-> FALSE, glass |-> FALSE]
OffFilters == {AllOff, NoToilets}

InitOff ==
    /\ NoJsx
    /\ now = 0
    /\ CACHE = <<>>
    /\ calls = <<>>
    /\ mounted = [i \in Instances |-> "no"]
    /\ mapView = [i \in Instances |-> [center |-> P1, dist |-> InitialDist]]
    /\ radiusProp = [i \in Instances |-> Radius]
    /\ abortRef = [i \in Instances |-> 0]
    /\ pendingRef = [i \in Instances |-> 0]
    /\ \E f \in [Instances -> OffFilters] :
          /\ filtersRef = [i \in Instances |-> normalizeFilters(f[i])]
          /\ prevFiltersRef = [i \in Instances |-> normalizeFilters(f[i])]
    /\ timer = [i \in Instances |-> NoTimer]
    /\ loading = [i \in Instances |-> "none"]
    /\ shown = [i \in Instances |-> [data |-> <<>>, by |-> "none", stale |-> FALSE]]
    /\ lastEvt = [i \in Instances |-> NoEvt]
    /\ last = Other

NextOff ==
    \/ \E i \in Instances : Mount(i)
    \/ \E i \in Instances, c \in Positions : CenterChange(i, c)
    \/ \E i \in Instances, f \in OffFilters : FiltersChange(i, f)
    \/ \E i \in Instances, c \in Positions, d \in Dists : trigger(i, c, d)
    \/ \E i \in Instances : DebounceFire(i)
    \/ \E i \in Instances : Unmount(i)
    \/ \E f \in 1..MaxCalls : Answer(f, CtlStatuses, CtlHeaders, Bodies)
    \/ PassView

SpecOff == InitOff /\ [][NextOff]_vars

(***************************************************************************)
(* Two MapRefresher components mounted in the same page: each has its own  *)
(* refs and its own timeout, CACHE is the one of the module.  The first    *)
(* ExtraTime ms.                                                           *)
(***************************************************************************)
Duo == {1, 2}

InitDuo ==
    /\ NoJsx
    /\ now = 0
    /\ CACHE = <<>>
    /\ calls = <<>>
    /\ mounted = [i \in Duo |-> "no"]
    /\ mapView = [i \in Duo |-> [center |-> P1, dist |-> InitialDist]]
    /\ radiusProp = [i \in Duo |-> Radius]
    /\ abortRef = [i \in Duo |-> 0]
    /\ pendingRef = [i \in Duo |-> 0]
    /\ filtersRef = [i \in Duo |-> normalizeFilters(AllOn)]
    /\ prevFiltersRef = [i \in Duo |-> normalizeFilters(AllOn)]
    /\ timer = [i \in Duo |-> NoTimer]
    /\ loading = [i \in Duo |-> "none"]
    /\ shown = [i \in Duo |-> [data |-> <<>>, by |-> "none", stale |-> FALSE]]
    /\ lastEvt = [i \in Duo |-> NoEvt]
    /\ last = Other

NextDuo ==
    \/ \E i \in Duo : Mount(i)
    \/ \E i \in Duo, c \in Positions : CenterChange(i, c)
    \/ \E i \in Duo, c \in Positions : trigger(i, c, InitialDist)
    \/ \E i \in Duo : DebounceFire(i)
    \/ \E i \in Duo : Unmount(i)
    \/ \E f \in 1..MaxCalls : Answer(f, CtlStatuses, CtlHeaders, Bodies)
    \/ PassView

SpecDuo == InitDuo /\ [][NextDuo]_vars

(***************************************************************************)
(* The variant NearbyMap.jsx (src/unnamed/part_000): fetchWithCache keeps  *)
(* in cacheRef the promise of the request in flight for a key, then its    *)
(* data; the fetch effect of its MapRefresher runs fetchWithCache with a   *)
(* new AbortController at every run and aborts it in its cleanup.          *)
(*   promises[p]  the promise p of fetchWithCache: its key, the effect     *)
(*                whose signal its fetchOverpass was given, its state      *)
(*   effects[e]   a run of the effect: its key, whether its signal is      *)
(*                aborted, the promise it waits for, what became of it     *)
(***************************************************************************)
\* x.toFixed(4), x in micro-degrees
toFixed4(x) ==
    IF x >= 0 THEN ((x + 50) \div 100) * 100
    ELSE 0 - ((((0 - x) + 50) \div 100) * 100)

\* options?.toilets ? 1 : 0
Wants(options, c) ==
    options # NoFilters /\ c \in DOMAIN options /\ options[c]

\* [lat.toFixed(4), lng.toFixed(4), Math.round(r / 50), t, f, g].join("|")
cacheKey(lat, lng, r, opts) ==
    <<toFixed4(lat), toFixed4(lng), (2 * r + 50) \div 100,
      Wants(opts, "toilets"), Wants(opts, "fountains"), Wants(opts, "glass")>>

\* buildQuery returns null when no category is wanted, and fetchOverpass
\* then returns [] without any request.
HasQuery(options) == \E c \in Categories : Wants(options, c)

\* el.lat ?? el.center?.lat
CoordOf(el, fld) ==
    IF Has(el, fld) THEN el[fld]
    ELSE IF Has(el, "center") /\ Has(el.center, fld) THEN el.center[fld]
    ELSE Null

RECURSIVE normalizeElements(_)
normalizeElements(elements) ==
    IF elements = <<>> THEN <<>>
    ELSE LET el == Head(elements)
             rest == normalizeElements(Tail(elements))
         IN  IF CoordOf(el, "lat") = Null \/ CoordOf(el, "lon") = Null
             THEN rest
             ELSE <<[id |-> <<el.type, el.id>>, type |-> el.type,
                     osmid |-> el.id, lat |-> CoordOf(el, "lat"),
                     lon |-> CoordOf(el, "lon"),
                     tags |-> IF Has(el, "tags") THEN el.tags ELSE <<>>]>>
                  \o rest

StoreNothing(cache, key, p) == cache

\* cache.set(key, p): the in-flight promise is stored under the key.
StoreInFlight(cache, key, p) ==
    [k \in DOMAIN cache \cup {key} |->
        IF k = key THEN [kind |-> "promise", p |-> p] ELSE cache[k]]

\* cache.set(key, data)
StoreData(cache, key, data) ==
    [k \in DOMAIN cache \cup {key} |->
        IF k = key THEN [kind |-> "data", data |-> data] ELSE cache[k]]

\* cache.delete(key)
Delete(cache, key) == [k \in DOMAIN cache \ {key} |-> cache[k]]

\* ctrl.abort() of the cleanup of the previous run of the effect.
Cleaned(es) == [e \in 1..Len(es) |-> [es[e] EXCEPT !.aborted = TRUE]]

\* The runs of the effect that wait for promise p.
Waiting(p) ==
    {e \in 1..Len(effects) : effects[e].awaits = p /\ effects[e].state = "pending"}

\* The fetch effect runs, after the cleanup of its previous run: a new
\* AbortController, setError(null), and fetchWithCache for the centre of the
\* map, the radius and the options.  Stored data settles the promise handed
\* back in the same task, and so does the [] of a query for no category.
RunEffect(c, r, options) ==
    LET key == cacheKey(c[1], c[2], r, options)
        e == Len(effects) + 1
        p == Len(promises) + 1
        run == [key |-> key, aborted |-> FALSE, awaits |-> 0, state |-> "pending"]
    IN  /\ Len(effects) < MaxEffects
        /\ IF key \in DOMAIN cacheRef
           THEN IF cacheRef[key].kind = "data"
                THEN /\ effects' = Append(Cleaned(effects),
                                          [run EXCEPT !.state = "data"])
                     /\ markers' = cacheRef[key].data
                     /\ UNCHANGED <<cacheRef, promises>>
                ELSE /\ effects' = Append(Cleaned(effects),
                                          [run EXCEPT !.awaits = cacheRef[key].p])
                     /\ UNCHANGED <<cacheRef, promises, markers>>
           ELSE IF HasQuery(options)
                THEN /\ promises' = Append(promises,
                           [key |-> key, signal |-> e, pc |-> "pending"])
                     /\ cacheRef' = StoreInFlight(cacheRef, key, p)
                     /\ effects' = Append(Cleaned(effects),
                                          [run EXCEPT !.awaits = p])
                     /\ UNCHANGED markers
                ELSE /\ promises' = Append(promises,
                           [key |-> key, signal |-> e, pc |-> "fulfilled"])
                     /\ cacheRef' = StoreData(cacheRef, key, <<>>)
                     /\ effects' = Append(Cleaned(effects),
                                          [run EXCEPT !.awaits = p, !.state = "data"])
                     /\ markers' = <<>>
        /\ error' = "null"
        /\ last' = [act |-> "effect", e |-> e, key |-> key]
        /\ UNCHANGED <<now, CACHE, calls, ctlVars>>

\* The component unmounts: the cleanup of the last run of the effect.
CleanupEffect ==
    /\ \E e \in 1..Len(effects) : ~effects[e].aborted
    /\ effects' = Cleaned(effects)
    /\ last' = [act |-> "cleanup"]
    /\ UNCHANGED <<now, CACHE, calls, ctlVars, cacheRef, promises, error, markers>>

\* fetchOverpass of promise p returns the points of a body: the data replace
\* the promise in the cache, and every run waiting for p hands them to
\* onData.  A request whose signal is aborted does not return.
Fulfilled(p, body) ==
    LET data == normalizeElements(body)
    IN  /\ p \in 1..Len(promises)
        /\ promises[p].pc = "pending"
        /\ ~effects[promises[p].signal].aborted
        /\ promises' = [promises EXCEPT ![p].pc = "fulfilled"]
        /\ cacheRef' = StoreData(cacheRef, promises[p].key, data)
        /\ effects' = [e \in 1..Len(effects) |->
                          IF e \in Waiting(p)
                          THEN [effects[e] EXCEPT !.state = "data"]
                          ELSE effects[e]]
        /\ markers' = IF Waiting(p) # {} THEN data ELSE markers
        /\ last' = [act |-> "fulfilled", p |-> p]
        /\ UNCHANGED <<now, CACHE, calls, ctlVars, error>>

\* fetchOverpass of promise p throws: "Request aborted" when fetch rejects
\* and its signal is aborted, the last error of its mirrors otherwise.  The
\* key is deleted from the cache, and every run waiting for p either
\* returns, when its own signal is aborted, or calls setError.
Thrown(p, message) ==
    /\ p \in 1..Len(promises)
    /\ promises[p].pc = "pending"
    /\ message = "Request aborted" => effects[promises[p].signal].aborted
    /\ promises' = [promises EXCEPT ![p].pc = "rejected"]
    /\ cacheRef' = Delete(cacheRef, promises[p].key)
    /\ effects' = [e \in 1..Len(effects) |->
                      IF e \in Waiting(p)
                      THEN [effects[e] EXCEPT !.state =
                               IF effects[e].aborted THEN "silent" ELSE "error"]
                      ELSE effects[e]]
    /\ error' = IF \E e \in Waiting(p) : ~effects[e].aborted
                THEN message ELSE error
    /\ last' = [act |-> "thrown", p |-> p, message |-> message]
    /\ UNCHANGED <<now, CACHE, calls, ctlVars, markers>>

JsxRadii == {1200, 1210, 1300}
JsxOptions == {AllOn, AllOff}
Messages == {"Request aborted", "Overpass error 504"}

InitJsx ==
    /\ NoJsx
    /\ now = 0
    /\ CACHE = <<>>
    /\ calls = <<>>
    /\ mounted = [i \in Instances |-> "gone"]
    /\ mapView = [i \in Instances |-> [center |-> P1, dist |-> InitialDist]]
    /\ radiusProp = [i \in Instances |-> Radius]
    /\ abortRef = [i \in Instances |-> 0]
    /\ pendingRef = [i \in Instances |-> 0]
    /\ filtersRef = [i \in Instances |-> normalizeFilters(AllOn)]
    /\ prevFiltersRef = [i \in Instances |-> normalizeFilters(AllOn)]
    /\ timer = [i \in Instances |-> NoTimer]
    /\ loading = [i \in Instances |-> "none"]
    /\ shown = [i \in Instances |-> [data |-> <<>>, by |-> "none", stale |-> FALSE]]
    /\ lastEvt = [i \in Instances |-> NoEvt]
    /\ last = Other

NextJsx ==
    \/ \E c \in Positions, r \in JsxRadii, o \in JsxOptions : RunEffect(c, r, o)
    \/ CleanupEffect
    \/ \E p \in 1..MaxEffects, body \in Bodies : Fulfilled(p, body)
    \/ \E p \in 1..MaxEffects, message \in Messages : Thrown(p, message)

SpecJsx == InitJsx /\ [][NextJsx]_vars

(***************************************************************************)
(* Properties.  The last step of a behaviour is named by last: every       *)
(* action sets it, so on every step that changes the state last' names the *)
(* action taken.                                                           *)
(***************************************************************************)
DoFetchActs == {"mount", "center", "filters", "debounce"}

\* C1, as stated: the data handed to onData never comes from a call that a
\* later doFetch of the same controller (answered from the cache or from the
\* network) has overtaken.
C1_LatestWins == \A i \in Instances : ~shown[i].stale

\* C2: of the calls a controller instance has started, every one but the one
\* whose AbortController abortRef holds has an aborted signal, so at most one
\* signal is not aborted.
C2_AtMostOneActive ==
    \A i \in Instances :
        /\ Cardinality({f \in NonAborted(calls) : calls[f].owner = i}) <= 1
        /\ \A f \in NonAborted(calls) : calls[f].owner = i => abortRef[i] = f

\* A cache-miss doFetch has just aborted a call still in flight and started
\* the next one.
C2_Witness ==
    \E f, g \in 1..Len(calls) :
        /\ calls[f].owner = calls[g].owner
        /\ calls[f].aborted /\ ~Settled(calls[f])
        /\ ~calls[g].aborted /\ calls[g].pc = "fetch"

\* The call f returns its points in this step: its then-callback writes CACHE
\* and calls onData.
Returns(f) == ~Settled(calls[f]) /\ calls'[f].pc = "returned"

\* C3: a call whose signal has been aborted never returns afterwards, wherever
\* the abort found it, so it neither calls onData nor writes CACHE; CACHE and
\* the data delivered from the network change only when a call whose signal
\* is not aborted returns.
C3_AbortedNeverDelivers ==
    [][/\ \A f \in 1..Len(calls) : Returns(f) => ~calls[f].aborted
       /\ CACHE' # CACHE =>
             \E f \in 1..Len(calls) : Returns(f) /\ ~calls[f].aborted
       /\ \A i \in Instances :
             (shown'[i] # shown[i] /\ shown'[i].by = "network") =>
                 \E f \in 1..Len(calls) :
                     Returns(f) /\ calls[f].owner = i /\ ~calls[f].aborted
      ]_vars

\* A call of a controller, aborted during its Retry-After sleep, has just
\* failed.
C3_Witness ==
    /\ last.act = "settle"
    /\ last.c.owner # 0
    /\ last.c.aborted
    /\ last.c.pc = "failed"
    /\ last.c.wait = "retryAfter"
    /\ Len(last.c.sleeps) = 1

\* C4: a doFetch for key k while CACHE holds an entry for k younger than the
\* TTL hands the cached data to onData and starts no call and no request; a
\* doFetch for k while the entry has reached the TTL starts exactly one call,
\* which sends exactly one request.
C4_HitWithinTtlMissAfter ==
    [][last'.act \in DoFetchActs =>
          LET i == last'.i
              k == last'.k
              n == Len(calls)
          IN  /\ (k \in DOMAIN CACHE /\ now - CACHE[k].at < CACHE_TTL_MS) =>
                    /\ shown'[i].data = CACHE[k].data
                    /\ shown'[i].by = "cache"
                    /\ Len(calls') = n
                    /\ \A f \in 1..n : calls'[f].requests = calls[f].requests
              /\ (k \in DOMAIN CACHE /\ now - CACHE[k].at >= CACHE_TTL_MS) =>
                    /\ Len(calls') = n + 1
                    /\ calls'[n + 1].k = k
                    /\ Len(calls'[n + 1].requests) = 1
                    /\ \A f \in 1..n : calls'[f].requests = calls[f].requests
                    /\ shown' = shown
      ]_vars

\* A doFetch has just missed on a key whose cache entry has expired.
C4_Witness ==
    /\ last.act \in DoFetchActs
    /\ ~last.hit
    /\ last.k \in DOMAIN CACHE
    /\ now - CACHE[last.k].at >= CACHE_TTL_MS

\* C5: pendingRef counts the calls of the instance that have not settled, and
\* once onLoading has been called its last argument is true exactly when
\* pendingRef > 0.
C5_LoadingFollowsCounter ==
    \A i \in Instances :
        /\ pendingRef[i] = Cardinality(PendingOf(i))
        /\ loading[i] # "none" => (loading[i] = "on" <=> pendingRef[i] > 0)

\* A superseded call has just settled while a newer one is outstanding, and
\* loading is still reported.
C5_Witness ==
    /\ last.act = "settle"
    /\ last.c.owner # 0
    /\ last.c.aborted
    /\ pendingRef[last.c.owner] = 1
    /\ loading[last.c.owner] = "on"

\* The step is a change of the filters prop of instance i.
FilterStep(i) == last'.act \in {"filters", "filtersOff"} /\ last'.i = i

\* Some category goes from false to true in this step.
TurnsOn(i) ==
    \E c \in Categories : ~prevFiltersRef[i][c] /\ prevFiltersRef'[i][c]

NothingStartedOrCancelled ==
    /\ Len(calls') = Len(calls)
    /\ \A f \in 1..Len(calls) :
          /\ calls'[f].aborted = calls[f].aborted
          /\ calls'[f].requests = calls[f].requests

\* The step starts exactly one call, for the centre of the map of instance i,
\* its viewport radius and its new filters.
OneFetchStarted(i) ==
    LET n == Len(calls)
    IN  /\ Len(calls') = n + 1
        /\ calls'[n + 1].lat = mapView[i].center[1]
        /\ calls'[n + 1].lon = mapView[i].center[2]
        /\ calls'[n + 1].radius = computeViewportRadius(i)
        /\ calls'[n + 1].opts = filtersRef'[i]
        /\ Len(calls'[n + 1].requests) = 1
        /\ \A f \in 1..n : calls'[f].requests = calls[f].requests

\* C6, as stated: a change of filters that turns no category on starts and
\* cancels nothing; one that turns a category on starts exactly one network
\* fetch for the map centre, the viewport radius and the new filters.
C6_OneFetchPerTurnOn ==
    [][\A i \in Instances : FilterStep(i) =>
          IF TurnsOn(i) THEN OneFetchStarted(i) ELSE NothingStartedOrCancelled
      ]_vars

\* C6, amended: a change of filters that turns no category on starts and
\* cancels nothing; one that turns a category on runs exactly one doFetch for
\* the map centre, the viewport radius and the new filters, which is answered
\* from the cache without any request when CACHE holds a fresh entry for that
\* key, and starts exactly one network fetch otherwise.
C6_OneDoFetchPerTurnOn ==
    [][\A i \in Instances : FilterStep(i) =>
          LET k == keyFor(mapView[i].center[1], mapView[i].center[2],
                          computeViewportRadius(i), filtersRef'[i])
          IN  IF ~TurnsOn(i) THEN NothingStartedOrCancelled
              ELSE IF k \in DOMAIN CACHE /\ now - CACHE[k].at < CACHE_TTL_MS
                  THEN /\ NothingStartedOrCancelled
                       /\ shown'[i].data = CACHE[k].data
                       /\ shown'[i].by = "cache"
                  ELSE OneFetchStarted(i)
      ]_vars

\* A change of filters has just turned a category on and was answered from
\* the cache.
C6_Witness ==
    /\ last.act = "filters"
    /\ last.hit
    /\ shown[last.i].by = "cache"

\* The step is the run of the debounce timeout of instance i.
FireStep(i) == last'.act = "debounce" /\ last'.i = i

\* The pending timeout of instance i is gone after the step.
TimerCleared(i) == timer[i] # NoTimer /\ timer'[i] = NoTimer

\* C7, as stated: every burst of events ends with one fetch, 300 ms after its
\* last event, for the centre and the viewport radius of that event and the
\* current filters.
C7_FetchOfLastEvent ==
    [][\A i \in Instances :
          /\ TimerCleared(i) => FireStep(i)
          /\ FireStep(i) =>
                /\ now = lastEvt[i].at + DebounceMs
                /\ last'.k = keyFor(lastEvt[i].center[1], lastEvt[i].center[2],
                                    Max(Radius, CeilBuffered(lastEvt[i].dist)),
                                    filtersRef[i])
      ]_vars

\* C7, amended: an event starts no fetch and sets the timeout 300 ms ahead,
\* replacing a pending one; the timeout is never overdue and is cleared only
\* by its run or by teardown; its run comes 300 ms after the last event and is
\* exactly one doFetch, for the centre and the viewport radius the map has at
\* that time and the current filters.
C7_Debounce ==
    [][\A i \in Instances :
          /\ (last'.act = "trigger" /\ last'.i = i) =>
                /\ timer'[i] = now + DebounceMs
                /\ calls' = calls
                /\ shown' = shown
          /\ TimerCleared(i) => (last'.act \in {"debounce", "unmount"} /\ last'.i = i)
          /\ timer[i] # NoTimer => now' <= timer[i]
          /\ FireStep(i) =>
                /\ now = lastEvt[i].at + DebounceMs
                /\ timer'[i] = NoTimer
                /\ last'.k = keyFor(mapView[i].center[1], mapView[i].center[2],
                                    computeViewportRadius(i), filtersRef[i])
                /\ Len(calls') = Len(calls) + (IF last'.hit THEN 0 ELSE 1)
      ]_vars

\* The timeout has just run after a burst of events that arrived at more than
\* one time.
C7_Witness ==
    /\ last.act = "debounce"
    /\ last.evt.first < last.evt.at

\* C8: when a call started by doFetch fails, onData is not called and CACHE
\* is not written, pendingRef goes down by one, onLoading reports whether a
\* call is still outstanding, and the promise of doFetch resolves.
C8_FailureIsSwallowed ==
    [][\A f \in 1..Len(calls) :
          (calls[f].owner # 0 /\ ~Settled(calls[f]) /\ calls'[f].pc = "failed") =>
              LET i == calls[f].owner
              IN  /\ shown' = shown
                  /\ CACHE' = CACHE
                  /\ pendingRef'[i] = pendingRef[i] - 1
                  /\ loading'[i] = (IF pendingRef[i] - 1 = 0 THEN "off" ELSE "on")
                  /\ calls'[f].promise = "resolved"
      ]_vars

\* A call has just failed on a network error, an HTTP error or a malformed
\* body while points delivered earlier are displayed, and loading is off.
C8_Witness ==
    /\ last.act = "settle"
    /\ last.c.owner # 0
    /\ last.c.error \in {"network", "http", "malformed"}
    /\ shown[last.c.owner].by = "network"
    /\ loading[last.c.owner] = "off"

\* Every response the call has received so far is a 504.
All504(c) == \A n \in 1..Len(c.responses) : c.responses[n].status = 504

\* C9: attempt never exceeds 3; a call that has received only 504 responses
\* has sent at most 3 requests, all to the first mirror, and has slept 400 ms
\* and then 800 ms; once it has settled without being aborted or cut off by
\* the network it has sent exactly 3 requests and failed with status 504.
C9_GatewayTimeouts ==
    \A f \in 1..Len(calls) :
        LET c == calls[f]
        IN  /\ c.attempt <= 3
            /\ (c.owner = 0 /\ All504(c)) =>
                  /\ c.requests \in {<<0>>, <<0, 0>>, <<0, 0, 0>>}
                  /\ c.sleeps \in {<<>>, <<400>>, <<400, 800>>}
                  /\ (Settled(c) /\ c.error \notin {"abort", "network"}) =>
                        /\ c.requests = <<0, 0, 0>>
                        /\ c.sleeps = <<400, 800>>
                        /\ Len(c.responses) = 3
                        /\ c.pc = "failed"
                        /\ c.error = "http"
                        /\ c.status = 504

\* A call has failed after three 504 responses.
C9_Witness ==
    \E f \in 1..Len(calls) :
        /\ calls[f].pc = "failed"
        /\ calls[f].error = "http"
        /\ Len(calls[f].responses) = 3
        /\ All504(calls[f])

\* The wait a parsable Retry-After header asks for, in ms and capped at 15 s:
\* a number of seconds, or a date, which asks for the time left until it.
CappedMs(header) ==
    LET ms == IF header.kind = "secs" THEN header.v * 1000 ELSE header.v - now
    IN  IF ms > 15000 THEN 15000 ELSE IF ms < 0 THEN 0 ELSE ms

\* C10: a 429 or 503 response with a parsable Retry-After makes the call
\* sleep the time it asks for, capped at 15000 ms; when that sleep runs
\* out the call sends its next request to the same mirror with attempt at the
\* value it had before the response; and the call that is answered 503 with
\* Retry-After: 1 and then 200 has slept 1000 ms once, has sent both requests
\* to the same mirror and returns the points of the body of the 200.
C10_RetryAfter ==
    [][\A f \in 1..Len(calls) :
          LET c == calls[f]
              d == calls'[f]
          IN  /\ (/\ c.owner = 0 /\ c.pc = "fetch" /\ last'.act = "step"
                  /\ Len(d.responses) = Len(c.responses) + 1
                  /\ last'.input.status \in {429, 503}
                  /\ last'.input.header.kind \in {"secs", "date"}) =>
                    /\ d.pc = "sleep"
                    /\ d.sleeps = Append(c.sleeps, CappedMs(last'.input.header))
                    /\ d.requests = c.requests
                    /\ d.attempt = c.attempt
                    /\ d.endpointIndex = c.endpointIndex
              /\ (/\ c.owner = 0 /\ c.pc = "sleep" /\ c.wait = "retryAfter"
                  /\ ~c.aborted /\ d.pc # "sleep") =>
                    /\ d.pc = "fetch"
                    /\ d.requests = Append(c.requests, c.requests[Len(c.requests)])
                    /\ d.attempt = c.attempt
                    /\ d.sleeps = c.sleeps
              /\ (/\ c.owner = 0 /\ c.pc = "json" /\ d.pc = "returned"
                  /\ c.responses = <<[status |-> 503, header |-> Secs(1)],
                                     [status |-> 200, header |-> NoHeader]>>) =>
                    /\ d.sleeps = <<1000>>
                    /\ d.requests = <<0, 0>>
                    /\ d.result = toPoints(last'.input.body)
      ]_vars

\* A call answered 503 with Retry-After: 1 and then 200 has returned.
C10_Witness ==
    \E f \in 1..Len(calls) :
        /\ calls[f].pc = "returned"
        /\ calls[f].sleeps = <<1000>>
        /\ calls[f].responses = <<[status |-> 503, header |-> Secs(1)],
                                  [status |-> 200, header |-> NoHeader]>>

\* The step delivers a response to the request of the direct call f.
Answered(f) ==
    /\ calls[f].owner = 0
    /\ calls[f].pc = "fetch"
    /\ last'.act \in {"step", "settle"}
    /\ last'.f = f
    /\ Len(calls'[f].responses) = Len(calls[f].responses) + 1

\* A Retry-After header that can be used: a number of seconds that is not
\* negative, or a date.
Usable(header) ==
    \/ header.kind = "secs" /\ header.v >= 0
    \/ header.kind = "date"

\* The response is handled by the Retry-After rule.
RetryAfterRule(status, header) == status \in {429, 503} /\ Usable(header)

\* The statuses that send the call to the next mirror.
SwitchStatus(status) ==
    status = 400 \/ status = 429 \/ (status \in 500..599 /\ status # 504)

\* The mirror the last request of the call was sent to.
Mirror(c) == c.requests[Len(c.requests)]

\* The response is handled by the mirror-switch rule.
SwitchRule(c, status, header) ==
    /\ SwitchStatus(status)
    /\ ~RetryAfterRule(status, header)
    /\ Mirror(c) < NumEndpoints - 1

\* C11: a 400, a 429 without usable Retry-After or a 5xx other than 504,
\* received while a later mirror has not been tried, makes the call read the
\* body, pause 200 ms and send its next request to the next mirror, attempt
\* being then what it was for the request answered; the call answered 400 by
\* the first mirror and 200 by the second has switched once, and returns the
\* points of the body of the 200.
C11_MirrorSwitch ==
    [][\A f \in 1..Len(calls) :
          LET c == calls[f]
              d == calls'[f]
          IN  /\ (/\ Answered(f)
                  /\ SwitchRule(c, last'.input.status, last'.input.header)) =>
                    /\ d.pc = "text"
                    /\ d.wait = "switch"
                    /\ d.requests = c.requests
                    /\ d.sleeps = c.sleeps
                    /\ d.attempt = c.attempt
              /\ (/\ c.owner = 0 /\ c.pc = "text" /\ c.wait = "switch"
                  /\ ~c.aborted /\ d.pc # "text") =>
                    /\ d.pc = "sleep"
                    /\ d.sleeps = Append(c.sleeps, 200)
                    /\ d.requests = c.requests
                    /\ d.attempt = c.attempt
              /\ (/\ c.owner = 0 /\ c.pc = "sleep" /\ c.wait = "switch"
                  /\ ~c.aborted /\ d.pc # "sleep") =>
                    /\ d.pc = "fetch"
                    /\ d.requests = Append(c.requests, Mirror(c) + 1)
                    /\ d.attempt = c.attempt
                    /\ d.sleeps = c.sleeps
              /\ (/\ c.owner = 0 /\ c.pc = "json" /\ d.pc = "returned"
                  /\ c.responses = <<[status |-> 400, header |-> NoHeader],
                                     [status |-> 200, header |-> NoHeader]>>) =>
                    /\ d.requests = <<0, 1>>
                    /\ d.sleeps = <<200>>
                    /\ d.result = toPoints(last'.input.body)
      ]_vars

\* A call answered 400 by the first mirror and 200 by the second has returned
\* the point of the body of the 200.
C11_Witness ==
    \E f \in 1..Len(calls) :
        /\ calls[f].pc = "returned"
        /\ calls[f].requests = <<0, 1>>
        /\ calls[f].result # <<>>
        /\ calls[f].responses = <<[status |-> 400, header |-> NoHeader],
                                  [status |-> 200, header |-> NoHeader]>>


\* The step is the failure of the request of the direct call f at the network
\* level: no response is received, and the signal is not aborted.
NetworkFailure(f) ==
    /\ calls[f].owner = 0
    /\ calls[f].pc = "fetch"
    /\ ~calls[f].aborted
    /\ last'.act \in {"step", "settle"}
    /\ last'.f = f
    /\ last'.input = [error |-> "network"]

\* C12: when a request fails at the network level the call fails with that
\* error in the same step, whatever attempts and mirrors remain, and a call
\* that has failed or returned sends no request afterwards.
C12_NetworkErrorStops ==
    [][\A f \in 1..Len(calls) :
          LET c == calls[f]
              d == calls'[f]
          IN  /\ NetworkFailure(f) =>
                    /\ d.pc = "failed"
                    /\ d.error = "network"
                    /\ d.promise = "rejected"
                    /\ d.requests = c.requests
                    /\ d.sleeps = c.sleeps
              /\ Settled(c) => d = c
      ]_vars

\* A call has failed on a network error after a 504 and its backoff, with an
\* attempt and a mirror left.
C12_Witness ==
    \E f \in 1..Len(calls) :
        /\ calls[f].pc = "failed"
        /\ calls[f].error = "network"
        /\ calls[f].requests = <<0, 0>>
        /\ calls[f].attempt < maxAttempts
        /\ Mirror(calls[f]) < NumEndpoints - 1

\* C13: once the signal of a call is aborted while the call is in a sleep
\* (Retry-After, mirror-switch pause or 504 backoff) or waiting for a
\* response, the next thing that happens is the rejection of that wait: the
\* call fails with the abort error, the sleep does not run out and no further
\* request is sent; and a call whose signal is aborted while it reads the body
\* before the mirror-switch pause fails on entering the pause, without
\* sleeping.
C13_AbortCutsShort ==
    [][\A f \in 1..Len(calls) :
          LET c == calls[f]
              d == calls'[f]
          IN  (c.owner = 0 /\ c.aborted) =>
                /\ c.pc \in {"sleep", "fetch"} =>
                      /\ last'.act = "settle"
                      /\ last'.f = f
                      /\ last'.input = [error |-> "abort"]
                      /\ d.pc = "failed"
                      /\ d.error = "abort"
                      /\ d.requests = c.requests
                      /\ d.sleeps = c.sleeps
                /\ (c.pc = "text" /\ c.wait = "switch") =>
                      /\ d.pc = "failed"
                      /\ d.error = "abort"
                      /\ d.requests = c.requests
                      /\ d.sleeps = c.sleeps
      ]_vars

\* A call aborted during the backoff sleep that follows its first 504 has
\* just failed with the abort error, having sent one request.
C13_Witness ==
    /\ last.act = "settle"
    /\ last.input = [error |-> "abort"]
    /\ last.c.owner = 0
    /\ last.c.error = "abort"
    /\ last.c.wait = "backoff"
    /\ last.c.sleeps = <<400>>
    /\ last.c.requests = <<0>>

\* C14, as stated: the cap of 3 attempts bounds the requests of a call across
\* mirrors: a call sends at most 3 requests, and one more for each mirror it
\* switches to without consuming an attempt.
C14_BoundedRequests ==
    \A f \in 1..Len(calls) :
        Len(calls[f].requests) <= maxAttempts + (NumEndpoints - 1)

\* The response is handled by the 504-retry rule.
Retry504Rule(c, status) == status = 504 /\ c.attempt < maxAttempts

NonSuccess(status) == status \notin 200..299

\* C15: a non-success response that none of the Retry-After, mirror-switch
\* and 504-retry rules handles makes the call read the body and fail with an
\* error that carries the status of that response, without any further
\* request or sleep; the call answered 404 fails on that first response.
C15_OtherStatusFails ==
    [][\A f \in 1..Len(calls) :
          LET c == calls[f]
              d == calls'[f]
          IN  /\ (/\ Answered(f)
                  /\ NonSuccess(last'.input.status)
                  /\ ~RetryAfterRule(last'.input.status, last'.input.header)
                  /\ ~SwitchRule(c, last'.input.status, last'.input.header)
                  /\ ~Retry504Rule(c, last'.input.status)) =>
                    /\ d.pc = "text"
                    /\ d.wait = "fail"
                    /\ d.status = last'.input.status
                    /\ d.requests = c.requests
                    /\ d.sleeps = c.sleeps
              /\ (/\ c.owner = 0 /\ c.pc = "text" /\ c.wait = "fail"
                  /\ d.pc # "text") =>
                    /\ d.pc = "failed"
                    /\ d.error = "http"
                    /\ d.status = c.status
                    /\ d.promise = "rejected"
                    /\ d.requests = c.requests
                    /\ d.sleeps = c.sleeps
              /\ (/\ c.owner = 0 /\ ~Settled(c) /\ Settled(d)
                  /\ c.responses = <<[status |-> 404, header |-> NoHeader]>>) =>
                    /\ d.pc = "failed"
                    /\ d.error = "http"
                    /\ d.status = 404
                    /\ d.requests = <<0>>
                    /\ d.sleeps = <<>>
      ]_vars

\* A call answered 400 by the first mirror and 400 by the last one has failed
\* with status 400.
C15_Witness ==
    \E f \in 1..Len(calls) :
        /\ calls[f].pc = "failed"
        /\ calls[f].error = "http"
        /\ calls[f].status = 400
        /\ calls[f].requests = <<0, 1>>
        /\ calls[f].responses = <<[status |-> 400, header |-> NoHeader],
                                  [status |-> 400, header |-> NoHeader]>>

\* The element has resolvable coordinates: a node its own lat and lon, a way
\* or a relation those of its center.
Resolvable(el) ==
    IF el.type = "node"
    THEN "lat" \in DOMAIN el /\ "lon" \in DOMAIN el
    ELSE "center" \in DOMAIN el

Coordinates(el) ==
    IF el.type = "node" THEN <<el.lat, el.lon>> ELSE <<el.center.lat, el.center.lon>>

\* C16, as stated: the call that reads the body of a 2xx response returns, in
\* the order of the body, exactly one point for each element with resolvable
\* coordinates, with the id, the type and the coordinates of that element;
\* the other elements are dropped and an empty body gives the empty list.
C16_OnePointPerElement ==
    [][\A f \in 1..Len(calls) :
          (calls[f].owner = 0 /\ calls[f].pc = "json"
              /\ calls'[f].pc = "returned") =>
              LET kept == SelectSeq(last'.input.body, Resolvable)
                  result == calls'[f].result
              IN  /\ Len(result) = Len(kept)
                  /\ \A n \in 1..Len(kept) :
                        /\ result[n].id = <<kept[n].type, kept[n].id>>
                        /\ result[n].type = kept[n].type
                        /\ <<result[n].lat, result[n].lon>> = Coordinates(kept[n])
      ]_vars

\* x lies in the cell of the grid value g, which is where x rounds to g: the
\* cell is 100 wide (0.0001 degrees in micro-degrees, 100 m in metres).
InCell(x, g) == g - 50 <= x /\ x < g + 50

\* x and y round to the same grid value.
SameCell(x, y) ==
    \E n \in ((x \div 100) - 1)..((x \div 100) + 1) :
        InCell(x, 100 * n) /\ InCell(y, 100 * n)

\* x and y differ by less than 0.00005 degrees.
Close(x, y) == x - y < 50 /\ y - x < 50

\* C17, as stated: two requests whose latitudes and whose longitudes differ by
\* less than 0.00005 degrees, with radii in the same 100 m bucket and equal
\* normalised filters, have the same key.
C17_CloseShareKey ==
    (/\ last.act = "keyFor"
     /\ Close(last.a[1], last.b[1])
     /\ Close(last.a[2], last.b[2])
     /\ SameCell(last.a[3], last.b[3])
     /\ normalizeFilters(last.a[4]) = normalizeFilters(last.b[4]))
        => last.ka = last.kb

\* C17, amended: two requests whose latitudes round to the same multiple of
\* 0.0001 degrees and whose longitudes do, with radii in the same 100 m bucket
\* and equal normalised filters, have the same key; two requests whose
\* latitudes or longitudes round to different multiples have different keys,
\* however close they are.
C17_SameCellShareKey ==
    last.act = "keyFor" =>
        /\ (/\ SameCell(last.a[1], last.b[1])
            /\ SameCell(last.a[2], last.b[2])
            /\ SameCell(last.a[3], last.b[3])
            /\ normalizeFilters(last.a[4]) = normalizeFilters(last.b[4]))
              => last.ka = last.kb
        /\ (~SameCell(last.a[1], last.b[1]) \/ ~SameCell(last.a[2], last.b[2]))
              => last.ka # last.kb

\* keyFor has given one key to two requests that differ in latitude, in
\* radius and in the filter object passed.
C17_Witness ==
    /\ last.act = "keyFor"
    /\ last.a[1] # last.b[1]
    /\ last.a[3] # last.b[3]
    /\ last.a[4] # last.b[4]
    /\ last.ka = last.kb

\* C18: roundRadius(r) is the multiple of 100 nearest to r, the tie going up;
\* 0, 149, 150 and 1200 give 0, 100, 200 and 1200; and roundRadius of the
\* result is the result.
C18_RoundRadius ==
    last.act = "roundRadius" =>
        /\ last.ret % 100 = 0
        /\ last.ret - 50 <= last.r
        /\ last.r < last.ret + 50
        /\ last.r = 0 => last.ret = 0
        /\ last.r = 149 => last.ret = 100
        /\ last.r = 150 => last.ret = 200
        /\ last.r = 1200 => last.ret = 1200
        /\ last.again = last.ret

\* roundRadius has rounded the tie 150 up to 200.
C18_Witness ==
    /\ last.act = "roundRadius"
    /\ last.r = 150
    /\ last.ret = 200

\* C19: the result of normalizeFilters has exactly the three fields, each a
\* boolean: false for a field the input lacks, the value of the input
\* otherwise; undefined or null gives all false; and normalizeFilters of the
\* result is the result.
C19_NormalizeFilters ==
    last.act = "normalizeFilters" =>
        /\ DOMAIN last.ret = {"toilets", "fountains", "glass"}
        /\ \A c \in DOMAIN last.ret :
              /\ last.ret[c] \in BOOLEAN
              /\ (last.f = NoFilters \/ c \notin DOMAIN last.f) => ~last.ret[c]
              /\ (last.f # NoFilters /\ c \in DOMAIN last.f) =>
                    last.ret[c] = last.f[c]
        /\ last.again = last.ret

\* normalizeFilters has completed an object that has one field only.
C19_Witness ==
    /\ last.act = "normalizeFilters"
    /\ last.f = [glass |-> TRUE]
    /\ last.ret = [toilets |-> FALSE, fountains |-> FALSE, glass |-> TRUE]

\* The category a clause of the query selects.
CategoryOf(sel) ==
    CASE sel = "amenity=toilets" -> "toilets"
      [] sel = "amenity=drinking_water" -> "fountains"
      [] sel = "amenity=recycling,recycling:glass=yes" -> "glass"
      [] sel = "amenity=recycling,recycling:glass_bottles=yes" -> "glass"
      [] OTHER -> "none"

\* C20: the query built for a normalised filter set has at least one
\* statement and an out statement; it has a clause of a category exactly
\* when the category is enabled, every such clause with the radius and the
\* centre given; and with no category enabled it is the single clause
\* node(0,0,0,0).
C20_QueryMatchesFilters ==
    last.act = "buildOverpassQL" =>
        LET q == last.ret
            stmts == q.stmts
        IN  /\ Len(stmts) > 0
            /\ q.out \in {"out", "out center"}
            /\ \A c \in Categories :
                  last.opts[c] <=>
                      \E n \in 1..Len(stmts) : CategoryOf(stmts[n].sel) = c
            /\ \A n \in 1..Len(stmts) :
                  CategoryOf(stmts[n].sel) # "none" =>
                      stmts[n].around = <<last.radius, last.lat, last.lon>>
            /\ (\A c \in Categories : ~last.opts[c]) =>
                  /\ Len(stmts) = 1
                  /\ stmts[1].sel = "node(0,0,0,0)"
            /\ (\E c \in Categories : last.opts[c]) =>
                  \A n \in 1..Len(stmts) : CategoryOf(stmts[n].sel) # "none"

\* buildOverpassQL has built the query of fountains alone.
C20_Witness ==
    /\ last.act = "buildOverpassQL"
    /\ last.opts = [toilets |-> FALSE, fountains |-> TRUE, glass |-> FALSE]
    /\ Len(last.ret.stmts) = 1
    /\ last.ret.stmts[1].sel = "amenity=drinking_water"

\* The glass tag variant a clause of the query selects.
VariantOf(sel) ==
    CASE sel = "amenity=recycling,recycling:glass=yes" -> "recycling:glass=yes"
      [] sel = "amenity=recycling,recycling:glass_bottles=yes" ->
             "recycling:glass_bottles=yes"
      [] OTHER -> "none"

GlassVariants ==
    {"recycling=glass", "recycling:glass=yes", "recycling:glass_bottles=yes",
     "recycling:glass_packaging=yes", "recycling:material=glass"}

\* C21, as stated: with glass enabled the query has one clause for each of
\* the five glass tag variants, and with glass disabled it has none of them.
C21_FiveGlassVariants ==
    last.act = "buildOverpassQL" =>
        LET stmts == last.ret.stmts
        IN  IF last.opts["glass"]
            THEN \A v \in GlassVariants :
                    Cardinality({n \in 1..Len(stmts) :
                                    VariantOf(stmts[n].sel) = v}) = 1
            ELSE \A n \in 1..Len(stmts) : VariantOf(stmts[n].sel) = "none"

\* C22: a doFetch whose key has an entry in CACHE is served from it exactly
\* when the entry is younger than the TTL, an entry of exactly the TTL being a
\* miss; the lookup leaves CACHE as it is; and an entry stays in CACHE, the
\* same, until a call started for its key returns.
C22_StrictTtlNoEviction ==
    [][/\ (last'.act \in DoFetchActs /\ last'.k \in DOMAIN CACHE) =>
             LET i == last'.i
                 k == last'.k
                 served == /\ Len(calls') = Len(calls)
                           /\ shown'[i].by = "cache"
                           /\ shown'[i].data = CACHE[k].data
                 missed == /\ Len(calls') = Len(calls) + 1
                           /\ shown'[i] = shown[i]
             IN  /\ now - CACHE[k].at < 5 * 60 * 1000 => served
                 /\ now - CACHE[k].at >= 5 * 60 * 1000 => missed
                 /\ CACHE' = CACHE
       /\ \A k \in DOMAIN CACHE :
             /\ k \in DOMAIN CACHE'
             /\ CACHE'[k] # CACHE[k] =>
                   \E f \in 1..Len(calls) :
                       Returns(f) /\ calls[f].owner # 0 /\ calls[f].k = k
      ]_vars

\* A doFetch has just missed on an entry whose age is exactly the TTL, and the
\* entry is still in CACHE.
C22_Witness ==
    /\ last.act \in DoFetchActs
    /\ ~last.hit
    /\ last.k \in DOMAIN CACHE
    /\ now - CACHE[last.k].at = CACHE_TTL_MS

\* ceil(1.1 x d) for a distance d in metres.
Ceil11(d) == ((11 * d) \div 10) + (IF (11 * d) % 10 = 0 THEN 0 ELSE 1)

\* The radius the claim gives a doFetch of instance i.
EffectiveRadius(i) ==
    LET base == radiusProp[i]
        d == mapView[i].dist
    IN  IF d = NoGeometry THEN (IF base = 0 THEN 1000 ELSE base)
        ELSE IF Ceil11(d) > base THEN Ceil11(d) ELSE base

\* C23: every doFetch the controller runs (first render and center change,
\* debounced pan or zoom, filter change) gets the radius r = max(base,
\* ceil(1.1 x d)), or base (1000 when base is 0) when the map has no geometry;
\* r is at least base; the key holds the bucket of r, and the call started on
\* a miss has r as its radius and in every clause of its query.
C23_EffectiveRadius ==
    [][\A i \in Instances : (last'.act \in DoFetchActs /\ last'.i = i) =>
          LET r == EffectiveRadius(i)
              n == Len(calls)
          IN  /\ r >= radiusProp[i]
              /\ last'.k[3] = roundRadius(r)
              /\ Len(calls') = n + 1 =>
                    /\ calls'[n + 1].radius = r
                    /\ calls'[n + 1].k = last'.k
                    /\ \A m \in 1..Len(calls'[n + 1].ql.stmts) :
                          LET clause == calls'[n + 1].ql.stmts[m]
                          IN  clause.around # <<>> => clause.around[1] = r
      ]_vars

\* The timeout of a pan or zoom has just started a fetch whose radius, taken
\* from the viewport, exceeds the radius prop.
C23_Witness ==
    /\ last.act = "debounce"
    /\ ~last.hit
    /\ calls[Len(calls)].radius > radiusProp[last.i]
    /\ radiusProp[last.i] > 0

\* C24: a change of the center prop, in the step of the change and without
\* touching the debounce timeout, leaves every call the controller started
\* before with an aborted signal, and runs one doFetch for the new center
\* as given, the viewport radius and the filters of filtersRef, which are
\* three booleans: answered from the cache, or starting one call with those
\* arguments.
C24_CenterChangeFetchesAtOnce ==
    [][\A i \in Instances : (last'.act = "center" /\ last'.i = i) =>
          LET c == mapView'[i].center
              n == Len(calls)
              k == keyFor(c[1], c[2], computeViewportRadius(i), filtersRef[i])
          IN  /\ now' = now
              /\ timer'[i] = timer[i]
              /\ filtersRef[i] \in [{"toilets", "fountains", "glass"} -> BOOLEAN]
              /\ filtersRef'[i] = filtersRef[i]
              /\ \A f \in 1..n : calls[f].owner = i => calls'[f].aborted
              /\ last'.k = k
              /\ IF k \in DOMAIN CACHE /\ now - CACHE[k].at < CACHE_TTL_MS
                 THEN /\ Len(calls') = n
                      /\ shown'[i].data = CACHE[k].data
                 ELSE /\ Len(calls') = n + 1
                      /\ calls'[n + 1].lat = c[1]
                      /\ calls'[n + 1].lon = c[2]
                      /\ calls'[n + 1].radius = computeViewportRadius(i)
                      /\ calls'[n + 1].opts = filtersRef[i]
                      /\ calls'[n + 1].requests = <<0>>
                      /\ ~calls'[n + 1].aborted
      ]_vars

\* A change of the center prop has just been answered from the cache while a
\* fetch was outstanding, which it has aborted.
C24_Witness ==
    /\ last.act = "center"
    /\ last.hit
    /\ \E f \in 1..Len(calls) :
          calls[f].owner = last.i /\ calls[f].aborted /\ ~Settled(calls[f])

\* The categories the query has a clause for.
Queried(ql) ==
    {CategoryOf(ql.stmts[n].sel) : n \in 1..Len(ql.stmts)} \ {"none"}

\* The categories whose bit is set in the key.
Keyed(k) ==
    (IF k[4] THEN {"toilets"} ELSE {})
        \cup (IF k[5] THEN {"fountains"} ELSE {})
        \cup (IF k[6] THEN {"glass"} ELSE {})

\* C25: the filters kept by the controller, and those of every call it has
\* in flight, are sets of exactly three booleans; the filter bits of the key
\* of a call are the filters the call was given; and the categories whose bit
\* is set in the key are the categories the query of the call has a clause
\* for.
C25_KeyAndQueryAgree ==
    /\ \A i \in Instances :
          filtersRef[i] \in [{"toilets", "fountains", "glass"} -> BOOLEAN]
    /\ \A f \in 1..Len(calls) :
          (calls[f].owner # 0 /\ ~Settled(calls[f])) =>
              LET c == calls[f]
              IN  /\ c.opts \in [{"toilets", "fountains", "glass"} -> BOOLEAN]
                  /\ <<c.k[4], c.k[5], c.k[6]>> =
                        <<c.opts["toilets"], c.opts["fountains"], c.opts["glass"]>>
                  /\ Keyed(c.k) = Queried(c.ql)

\* A fetch is in flight for a filters prop that had the glass field only:
\* its key has the glass bit alone and its query the glass clauses alone.
C25_Witness ==
    \E f \in 1..Len(calls) :
        /\ calls[f].owner # 0
        /\ calls[f].pc = "fetch"
        /\ Keyed(calls[f].k) = {"glass"}
        /\ Len(calls[f].ql.stmts) = 2

\* C26: CACHE changes only in the step in which a call started by doFetch
\* returns; that step sets the key the call was started with, which is the
\* key of its centre, radius and filters, to the time of the step and the
\* points returned, and leaves every other entry as it was; every such return
\* writes its entry.
C26_CacheWrittenOnSuccessOnly ==
    [][/\ CACHE' # CACHE =>
             \E f \in 1..Len(calls) :
                 /\ Returns(f)
                 /\ calls[f].owner # 0
                 /\ last'.act = "settle"
                 /\ last'.f = f
       /\ \A f \in 1..Len(calls) : (Returns(f) /\ calls[f].owner # 0) =>
             LET c == calls[f]
             IN  /\ c.k = keyFor(c.lat, c.lon, c.radius, c.opts)
                 /\ DOMAIN CACHE' = DOMAIN CACHE \cup {c.k}
                 /\ CACHE'[c.k] = [at |-> now', data |-> toPoints(last'.input.body)]
                 /\ \A k \in DOMAIN CACHE \ {c.k} : CACHE'[k] = CACHE[k]
      ]_vars

\* A fetch has just returned after the entry of its key had expired, and has
\* replaced that entry.
C26_Witness ==
    /\ last.act = "settle"
    /\ last.c.owner # 0
    /\ last.c.pc = "returned"
    /\ now >= CACHE_TTL_MS
    /\ CACHE[last.c.k] = [at |-> now, data |-> last.c.result]

\* C27: the key of a request is the key of its rounded inputs, rounding an
\* already rounded coordinate or radius changes nothing, two requests get the
\* same key exactly when their rounded latitude, rounded longitude, radius
\* bucket and normalised filters are equal, and the request of the unit test
\* gets the key 52.52,13.405|1200|t1f0g1.
C27_KeyOfRoundedInputs ==
    last.act = "keyFor" =>
        LET ra == Rounded(last.a)
            rb == Rounded(last.b)
        IN  /\ last.ka = last.kr
            /\ roundCoord(ra[1]) = ra[1]
            /\ roundCoord(ra[2]) = ra[2]
            /\ roundRadius(ra[3]) = ra[3]
            /\ (last.ka = last.kb) <=> (ra = rb)
            /\ last.a = TestKeyArgs =>
                  last.ka = <<52520000, 13405000, 1200, TRUE, FALSE, TRUE>>

\* keyFor has been called on the request of the unit test and on a request
\* with other raw inputs that falls in the same cell, bucket and filters.
C27_Witness ==
    /\ last.act = "keyFor"
    /\ last.a = TestKeyArgs
    /\ last.b # last.a
    /\ last.ka = last.kb

\* C28, as stated: a doFetch of a controller for a key for which a call of
\* that controller is still in flight starts no second call for that key.
C28_InFlightDeduplicated ==
    [][last'.act \in DoFetchActs =>
          ((\E f \in PendingOf(last'.i) : calls[f].k = last'.k)
              => Len(calls') = Len(calls))
      ]_vars

\* The calls as the effect that runs doFetch in this step hands them to it:
\* the center effect runs after the cleanup of its previous run, which aborts
\* the controller held by abortRef.
BeforeDoFetch ==
    IF last'.act = "center" THEN Abort(calls, abortRef[last'.i]) ELSE calls

\* C29: a doFetch answered from the cache delivers the cached data and leaves
\* abortRef, pendingRef and CACHE as they were; it starts no call, aborts no
\* signal and moves no call, so the call outstanding at that moment is still
\* in flight with the signal it had, and the loading flag reported does not
\* change.
C29_HitLeavesFetchAlone ==
    [][(last'.act \in DoFetchActs /\ last'.hit) =>
          LET i == last'.i
          IN  /\ shown'[i] = [data |-> CACHE[last'.k].data, by |-> "cache",
                              stale |-> FALSE]
              /\ abortRef' = abortRef
              /\ pendingRef' = pendingRef
              /\ CACHE' = CACHE
              /\ Len(calls') = Len(calls)
              /\ \A f \in 1..Len(calls) :
                    /\ calls'[f].aborted = BeforeDoFetch[f].aborted
                    /\ calls'[f].pc = calls[f].pc
                    /\ calls'[f].requests = calls[f].requests
              /\ (loading'[i] = "on") <=> (loading[i] = "on")
      ]_vars

\* A doFetch run by the debounce timeout has just been answered from the
\* cache while a call of the same controller is in flight, not aborted.
C29_Witness ==
    /\ last.act = "debounce"
    /\ last.hit
    /\ \E f \in PendingOf(last.i) :
          /\ abortRef[last.i] = f
          /\ ~calls[f].aborted
          /\ calls[f].pc = "fetch"

\* The calls instance i has started whose promise has not settled, after the
\* step.
PendingAfter(i) ==
    {f \in 1..Len(calls') : calls'[f].owner = i /\ ~Settled(calls'[f])}

\* C30: before and after every step pendingRef is the number of calls of the
\* controller that have not settled, aborted ones included, and is not
\* negative; every settling of such a call finds pendingRef at 1 or more and
\* takes exactly 1 off, so Math.max(0, ...) returns its second operand.
C30_CounterIsUnsettledCalls ==
    [][\A i \in Instances :
          /\ pendingRef[i] = Cardinality(PendingOf(i))
          /\ pendingRef'[i] = Cardinality(PendingAfter(i))
          /\ pendingRef[i] >= 0 /\ pendingRef'[i] >= 0
          /\ (last'.act = "settle" /\ last'.c.owner = i) =>
                /\ pendingRef[i] - 1 >= 0
                /\ pendingRef'[i] = pendingRef[i] - 1
      ]_vars

\* Two calls of a controller are unsettled, the older one aborted, and
\* pendingRef is 2.
C30_Witness ==
    \E i \in Instances : \E f, g \in PendingOf(i) :
        /\ f < g
        /\ calls[f].aborted
        /\ ~calls[g].aborted
        /\ pendingRef[i] = 2

\* The step is an event from outside the controller: a render with changed
\* props, a map event, the mount or the teardown.
EventStep ==
    last'.act \in {"mount", "center", "filters", "filtersOff", "trigger",
                   "unmount"}

\* No call of instance i is unsettled and the last value passed to onLoading,
\* if doFetch has run at all, is false.
LoadingCleared(i) ==
    /\ pendingRef[i] = 0
    /\ PendingOf(i) = {}
    /\ loading[i] # "on"
    /\ mounted[i] # "no" => loading[i] = "off"

\* C31: when every call in flight takes its next step and from some point on
\* no event arrives, the controller reaches, and stays in, a state with
\* pendingRef = 0 and false as the last value passed to onLoading.
C31_LoadingEventuallyClears ==
    <>[][~EventStep]_vars => <>[](\A i \in Instances : LoadingCleared(i))

\* After a success, a cache hit and an abort, the aborted call has just
\* settled as the last one in flight, and loading is reported off.
C31_Witness ==
    /\ last.act = "settle"
    /\ last.c.owner # 0
    /\ last.c.error = "abort"
    /\ CACHE # <<>>
    /\ shown[last.c.owner].by = "cache"
    /\ LoadingCleared(last.c.owner)

\* The n-th response of the call, as the call read it, sends the call to the
\* next mirror when one is left.
Switching(c, n) ==
    /\ SwitchStatus(c.responses[n].status)
    /\ ~RetryAfterRule(c.responses[n].status, c.responses[n].header)

\* C32: the mirror index of a call stays within the list of mirrors and never
\* decreases; a request goes to the mirror after the one of the request
\* before only when that one was answered 400, 429 without usable Retry-After
\* or a 5xx other than 504, and to the same mirror otherwise, so after a 504
\* or a 429 / 503 with usable Retry-After; a call answered only 504 has sent
\* every request to the first mirror.
C32_MirrorIndexMonotone ==
    [][\A f \in 1..Len(calls) :
          LET c == calls[f]
              d == calls'[f]
          IN  c.owner = 0 =>
                /\ d.endpointIndex \in 0..(NumEndpoints - 1)
                /\ d.endpointIndex >= c.endpointIndex
                /\ \A n \in 1..Len(d.requests) :
                      d.requests[n] \in 0..(NumEndpoints - 1)
                /\ \A n \in 1..(Len(d.requests) - 1) :
                      /\ d.requests[n + 1] \in {d.requests[n], d.requests[n] + 1}
                      /\ d.requests[n + 1] = d.requests[n] + 1 =>
                            Switching(d, n)
                      /\ (\/ d.responses[n].status = 504
                          \/ RetryAfterRule(d.responses[n].status,
                                            d.responses[n].header)) =>
                            d.requests[n + 1] = d.requests[n]
                /\ d.endpointIndex # c.endpointIndex =>
                      /\ c.pc = "text" /\ c.wait = "switch"
                      /\ Switching(c, Len(c.responses))
                /\ All504(d) =>
                      /\ d.endpointIndex = 0
                      /\ \A n \in 1..Len(d.requests) : d.requests[n] = 0
      ]_vars

\* A call has been answered 504 by the first mirror, sent to the second one
\* by a 500, and answered 504 there: its four requests went to the first
\* mirror twice and then to the second twice.
C32_Witness ==
    \E f \in 1..Len(calls) :
        /\ calls[f].owner = 0
        /\ calls[f].requests = <<0, 0, 1, 1>>
        /\ calls[f].responses[1].status = 504
        /\ calls[f].responses[2].status = 500
        /\ calls[f].responses[3].status = 504

\* No response of the call carried a Retry-After header the call could use.
NoUsableRetryAfter(c) ==
    \A n \in 1..Len(c.responses) : ~Usable(c.responses[n].header)

\* The value of attempt at the next test of the loop condition of a call
\* that is asleep: the sleeps before a retry of the same request and before
\* the request to the next mirror are followed by attempt--.
AtLoopTest(c) == IF c.wait = "backoff" THEN c.attempt ELSE c.attempt - 1

\* C33: a call none of whose responses carried a usable Retry-After header
\* sends at most 4 requests; attempt is between 0 and 3 whenever the loop
\* condition is tested; and a 504 backoff lasts 400 ms or 800 ms.
C33_FourRequestsAtMost ==
    [][\A f \in 1..Len(calls) :
          LET c == calls[f]
              d == calls'[f]
          IN  c.owner = 0 =>
                /\ NoUsableRetryAfter(d) =>
                      Len(d.requests) <= maxAttempts + (NumEndpoints - 1)
                /\ d.attempt \in 0..3
                /\ d.pc = "sleep" => AtLoopTest(d) \in 0..3
                /\ Len(d.requests) > Len(c.requests) =>
                      /\ c.pc = "sleep"
                      /\ d.attempt = AtLoopTest(c) + 1
                /\ (d.pc = "sleep" /\ d.wait = "backoff"
                    /\ Len(d.sleeps) > Len(c.sleeps)) =>
                      /\ d.sleeps[Len(d.sleeps)] \in {400, 800}
                      /\ d.sleeps[Len(d.sleeps)] = 400 * Pow2(d.attempt - 1)
      ]_vars

\* A call without any Retry-After has failed on the fourth request it sent:
\* two 504 of the first mirror, a switch, and the answer of the second mirror.
C33_Witness ==
    \E f \in 1..Len(calls) :
        /\ calls[f].owner = 0
        /\ calls[f].pc = "failed"
        /\ NoUsableRetryAfter(calls[f])
        /\ calls[f].requests = <<0, 0, 0, 1>>
        /\ calls[f].sleeps = <<400, 800, 200>>
        /\ Len(calls[f].responses) = 4

\* The wait the header asks for, in ms, before the cap: s seconds, or the
\* time left until the date, none when the date is past.
AskedMs(header) ==
    IF header.kind = "secs" THEN 1000 * header.v
    ELSE IF header.v > now THEN header.v - now ELSE 0

\* C34: a 429 or 503 response whose Retry-After is a number s >= 0 of seconds
\* makes the call wait min(15000, 1000 s) ms, and one whose Retry-After is a
\* date the time left until that date, 0 when it is past and 15000 at most;
\* every such wait is within 0..15000; a 429 or 503 whose header is absent or
\* unparsable starts no wait and is handled by the mirror-switch rule while
\* a mirror is left and fails the call otherwise.
C34_RetryAfterCapped ==
    [][\A f \in 1..Len(calls) :
          LET c == calls[f]
              d == calls'[f]
          IN  (Answered(f) /\ last'.input.status \in {429, 503}) =>
                LET header == last'.input.header
                IN  /\ Usable(header) =>
                          /\ d.pc = "sleep"
                          /\ d.wait = "retryAfter"
                          /\ d.sleeps = Append(c.sleeps, Min(15000, AskedMs(header)))
                          /\ d.sleeps[Len(d.sleeps)] \in 0..15000
                    /\ header \in {NoHeader, Junk} =>
                          /\ d.sleeps = c.sleeps
                          /\ d.pc = "text"
                          /\ d.wait = IF Mirror(c) < NumEndpoints - 1
                                      THEN "switch" ELSE "fail"
      ]_vars

\* A call is waiting 0 ms on a Retry-After date that was already past, after
\* a wait cut to 15000 ms.
C34_Witness ==
    \E f \in 1..Len(calls) :
        /\ calls[f].owner = 0
        /\ calls[f].pc = "sleep"
        /\ calls[f].wait = "retryAfter"
        /\ calls[f].sleeps = <<15000, 0>>
        /\ calls[f].responses[2].header = HttpDate(1000)
        /\ now > 1000

\* The query buildOverpassQL returns when no category is selected.
SentinelQuery ==
    [stmts |-> <<[sel |-> "node(0,0,0,0)", around |-> <<>>]>>, out |-> "out"]

\* C35: a doFetch run by the mount, a change of centre or a viewport event
\* for a key whose three filter bits are off and which is not freshly cached
\* starts one call with that key, whose one request carries the query for no
\* category; and when such a call returns, its points are handed to onData
\* and stored in CACHE under that key.
C35_AllOffStillFetches ==
    [][/\ (/\ last'.act \in {"mount", "center", "debounce"}
           /\ Keyed(last'.k) = {}
           /\ ~(last'.k \in DOMAIN CACHE
                /\ now - CACHE[last'.k].at < CACHE_TTL_MS)) =>
             LET n == Len(calls)
             IN  /\ Len(calls') = n + 1
                 /\ calls'[n + 1].owner = last'.i
                 /\ calls'[n + 1].k = last'.k
                 /\ calls'[n + 1].ql = SentinelQuery
                 /\ calls'[n + 1].requests = <<0>>
                 /\ calls'[n + 1].pc = "fetch"
       /\ \A f \in 1..Len(calls) :
             (/\ Returns(f) /\ calls[f].owner # 0
              /\ Keyed(calls[f].k) = {}) =>
                /\ calls[f].ql = SentinelQuery
                /\ shown'[calls[f].owner].by = "network"
                /\ shown'[calls[f].owner].data = toPoints(last'.input.body)
                /\ CACHE'[calls[f].k] =
                      [at |-> now, data |-> toPoints(last'.input.body)]
      ]_vars

\* A call started with every category off has just returned, and its result
\* is shown and cached under its key.
C35_Witness ==
    /\ last.act = "settle"
    /\ last.c.owner # 0
    /\ last.c.pc = "returned"
    /\ Keyed(last.c.k) = {}
    /\ last.c.ql = SentinelQuery
    /\ last.c.k \in DOMAIN CACHE
    /\ CACHE[last.c.k].data = last.c.result
    /\ shown[last.c.owner].data = last.c.result

\* C36: the teardown of a controller clears its pending timeout and aborts
\* the call it has outstanding; from then on the controller stays torn down,
\* runs no doFetch, starts no call and no request, has no timeout pending,
\* hands nothing to onData, and no call of it writes CACHE.
C36_TeardownIsTerminal ==
    [][\A i \in Instances :
          /\ (last'.act = "unmount" /\ last'.i = i) =>
                /\ mounted'[i] = "gone"
                /\ timer'[i] = NoTimer
                /\ \A f \in PendingOf(i) : calls'[f].aborted
          /\ mounted[i] = "gone" =>
                /\ mounted'[i] = "gone"
                /\ ~(last'.act \in DoFetchActs /\ last'.i = i)
                /\ timer'[i] = NoTimer
                /\ shown'[i] = shown[i]
                /\ \A f \in 1..Len(calls') : calls'[f].owner = i =>
                      /\ f <= Len(calls)
                      /\ Len(calls'[f].requests) <= Len(calls[f].requests)
                      /\ ~Returns(f)
                /\ (\A j \in Instances : mounted[j] = "gone") => CACHE' = CACHE
      ]_vars

\* A teardown has cleared a pending timeout and aborted a call in flight.
C36_Witness ==
    /\ last.act = "unmount"
    /\ last.timer # NoTimer
    /\ mounted[last.i] = "gone"
    /\ timer[last.i] = NoTimer
    /\ \E f \in PendingOf(last.i) : abortRef[last.i] = f /\ calls[f].aborted

\* What instance i owns: its refs, its timeout, what it has reported, and the
\* calls it has started.
Own(i, cs, abort, pending, tm, ld, sh, mt) ==
    <<abort[i], pending[i], tm[i], ld[i], sh[i], mt[i],
      [f \in {g \in 1..Len(cs) : cs[g].owner = i} |-> cs[f]]>>

\* The step is taken by instance j or by a call it has started.
StepOf(j) ==
    \/ last'.act \in DoFetchActs \cup {"filtersOff", "trigger", "unmount"}
       /\ last'.i = j
    \/ last'.act \in {"step", "settle"} /\ last'.c.owner = j

\* C37: a step of one instance or of one of its calls (a new fetch, an abort,
\* a teardown, a map event, a completion) leaves everything the other
\* instance owns as it was: its abortRef and the signals of its calls, its
\* pending counter and its timeout; a doFetch of either instance for a key of
\* which CACHE holds an entry younger than the TTL, whichever instance wrote
\* it, is answered from it without a call; and a call that returns replaces
\* the entry of its key, so the later of two writes stays.
C37_OnlyCacheIsShared ==
    [][/\ \A i, j \in Duo : (i # j /\ StepOf(j)) =>
             Own(i, calls', abortRef', pendingRef', timer', loading', shown', mounted')
                = Own(i, calls, abortRef, pendingRef, timer, loading, shown, mounted)
       /\ (/\ last'.act \in DoFetchActs
           /\ last'.k \in DOMAIN CACHE
           /\ now - CACHE[last'.k].at < CACHE_TTL_MS) =>
             /\ last'.hit
             /\ shown'[last'.i].data = CACHE[last'.k].data
             /\ shown'[last'.i].by = "cache"
             /\ Len(calls') = Len(calls)
       /\ \A f \in 1..Len(calls) : (Returns(f) /\ calls[f].owner # 0) =>
             CACHE'[calls[f].k] = [at |-> now, data |-> toPoints(last'.input.body)]
      ]_vars

\* An instance that has never started a call has just been answered from the
\* entry the other instance wrote, while the call the other instance has
\* outstanding is in flight, not aborted.
C37_Witness ==
    \E i, j \in Duo :
        /\ i # j
        /\ last.act \in DoFetchActs
        /\ last.i = i
        /\ last.hit
        /\ abortRef[i] = 0
        /\ shown[i].by = "cache"
        /\ \E f \in 1..Len(calls) :
              /\ calls[f].owner = j
              /\ calls[f].pc = "fetch"
              /\ ~calls[f].aborted

\* The categories the filter object mentions and enables, and those it does
\* not mention.
Enabled(opts) ==
    IF opts = NoFilters THEN {} ELSE {c \in DOMAIN opts : opts[c]}
Missing(opts) ==
    IF opts = NoFilters THEN Categories ELSE Categories \ DOMAIN opts

\* C38: the query buildOverpassQL builds of a filter object, which is the
\* query fetchOverpass sends when called with it, has a clause for every
\* category the object enables and for every category it lacks, while
\* normalizeFilters and keyFor enable exactly the categories the object
\* enables; so the two agree on an object with its three fields and differ
\* by the missing categories on any other, and with the object omitted the
\* query is for the three categories.
C38_DefaultsDiffer ==
    last.act = "defaults" =>
        LET o == last.opts
            normalized == {c \in Categories : last.norm[c]}
        IN  /\ last.sent = last.built
            /\ Queried(last.built) = Enabled(o) \cup Missing(o)
            /\ normalized = Enabled(o)
            /\ Keyed(last.key) = Enabled(o)
            /\ Missing(o) = {} => Queried(last.built) = Keyed(last.key)
            /\ Missing(o) # {} =>
                  /\ Queried(last.built) # Keyed(last.key)
                  /\ Queried(last.built) \ Keyed(last.key) = Missing(o)
            /\ o = NoFilters => Queried(last.built) = Categories

\* The filter object {toilets: false} has been handed to both: the query is
\* for fountains and glass, the key is t0f0g0.
C38_Witness ==
    /\ last.act = "defaults"
    /\ last.opts = [toilets |-> FALSE]
    /\ Queried(last.built) = {"fountains", "glass"}
    /\ Keyed(last.key) = {}

\* C39: a fetchWithCache for a key whose request is in flight makes no new
\* promise and waits for the one in flight, which is the only one pending for
\* that key; for a key whose data are stored it hands the data back without a
\* promise; for a key the cache does not hold it makes one promise for that
\* key; a request that returns leaves its data under its key, and one that
\* throws leaves the cache without its key.
C39_DedupByKey ==
    [][/\ last'.act = "effect" =>
             LET key == last'.key
                 e == last'.e
             IN  IF key \in DOMAIN cacheRef
                 THEN /\ promises' = promises
                      /\ cacheRef' = cacheRef
                      /\ IF cacheRef[key].kind = "promise"
                         THEN /\ promises[cacheRef[key].p].pc = "pending"
                              /\ effects'[e].awaits = cacheRef[key].p
                              /\ effects'[e].state = "pending"
                         ELSE /\ effects'[e].state = "data"
                              /\ markers' = cacheRef[key].data
                 ELSE /\ Len(promises') = Len(promises) + 1
                      /\ promises'[Len(promises')].key = key
                      /\ effects'[e].awaits = Len(promises')
       /\ last'.act = "fulfilled" =>
             /\ promises[last'.p].key \in DOMAIN cacheRef'
             /\ cacheRef'[promises[last'.p].key].kind = "data"
             /\ cacheRef'[promises[last'.p].key].data = markers'
       /\ last'.act = "thrown" => promises[last'.p].key \notin DOMAIN cacheRef'
       /\ \A p, q \in 1..Len(promises') :
             (/\ promises'[p].pc = "pending" /\ promises'[q].pc = "pending"
              /\ promises'[p].key = promises'[q].key) => p = q
      ]_vars

\* A run of the effect waits for the promise an earlier run started, which
\* is still pending.
C39_Witness ==
    \E e \in 1..Len(effects) :
        /\ effects[e].state = "pending"
        /\ effects[e].awaits # 0
        /\ promises[effects[e].awaits].signal # e
        /\ promises[effects[e].awaits].pc = "pending"

\* C40, as stated: setError is never called with the error of a request that
\* was aborted.
C40_AbortNeverShown == error # "Request aborted"

TypeOK ==
    /\ now \in 0..MaxTime
    /\ \A i \in Instances : pendingRef[i] \in 0..MaxCalls

=============================================================================
